---- MODULE Spec2Model ----
(***************************************************************************)
(* Model of the Modbus acquisition worker of mess-pi                       *)
(* (src/cli/src/service/modbus/worker.rs and connection.rs).               *)
(*                                                                         *)
(* The worker task (Task::execute) is modelled with one position per       *)
(* stage of its loop; it suspends at its await points (the blocking        *)
(* receive, a connect, a read attempt) and only there do the callers of    *)
(* Worker::send, Worker::stream and Worker::terminate, which are separate  *)
(* processes with their own positions, take their steps.  A device answers *)
(* a read of span j with DeviceData(destination, j), fails it with an I/O  *)
(* error, or lets the deadline elapse.                                     *)
(***************************************************************************)
EXTENDS Integers, Sequences, FiniteSets, TLC

\* ------------------------------------------------------------------ bounds
MaxReq == 2          \* requests submitted through send()/stream()
MaxSpans == 2        \* spans of one request
MaxRetries == 3      \* largest params.retries drawn in Init
MaxTerm == 2         \* callers of terminate()
NumDest == 2         \* distinct destinations
StreamCap == 2       \* capacity of a stream reply channel (1024 in the source, scaled)
MaxSent == 2         \* the per-request count of delivered messages saturates here
MaxExec == 3         \* executions of the push and update jobs
MaxRows == 3         \* rows of the measurements and of the health table
BatchLimit == 2      \* the limit of a batch, 1000 in the processes
MaxOverlap == 2      \* executions of a job in progress at the same time
InitialTimeout == 1  \* params.timeout of Worker::new, in ms
MaxFailed == 2       \* failed read attempts of one request in the scenarios that count them
MaxWords == 4        \* words of a String register drawn for the parser

\* --------------------------------------------------------- program constants
OneshotCap == 1      \* flume::bounded(1) of Worker::send

Rids == 1..MaxReq
Callers == 1..MaxTerm
Dests == 1..NumDest
None == -1           \* Option::None of a partial slot
TerminateMsg == 0    \* TaskRequest::Terminate; a Carrier is its request id
MinDevice == 1       \* Slave::min_device().0
MaxDevice == 247     \* Slave::max_device().0

VARIABLES
  env,               \* the scenario: how many calls the environment makes
  queue,             \* request channel (flume::unbounded), FIFO of TaskRequest
  sendersAlive,      \* some clone of Worker (a RequestSender) still exists
  taskState,         \* "running" | "aborting" | "aborted" | "finished"
  handle,            \* Worker.handle holds Some(JoinHandle)
  pc,                \* position of Task::execute
  pass,              \* "oneshot" | "stream": which for-loop is running
  idx,               \* index of the for-loop (1-based)
  cur,               \* locals of Task::read / parameterized_read in progress
  oneshots,          \* Task.oneshots
  streams,           \* Task.streams
  oneshotsToRemove,  \* oneshots_to_remove
  streamsToRemove,   \* streams_to_remove
  connections,       \* keys of Task.connections
  terminate,         \* Task.terminate
  metrics,           \* Metrics.errors of the running iteration
  params,            \* Task.params
  req,               \* the carrier built by each send()/stream() call
  cpc,               \* position of each send()/stream() caller
  ret,               \* what send() returned / what the stream last yielded
  reply,             \* reply channel of each request
  sent,              \* history: messages the worker put on each reply channel
  tpc,               \* position of each terminate() caller
  tres,              \* local `result` of terminate()
  tret,              \* what terminate() returned
  lastPR,            \* history: the parameterized_read that completed in the last step
  connectFailed,     \* history: requests for which Connection::connect failed
  lastConnect,       \* history: the last call of Connection::connect
  reads              \* history: the read attempts made for each request (kept when env.track)

\* the register parser (modbus/register.rs) applied to one detect register
VARIABLES
  host,              \* target_endian of the build: "little" | "big"
  confReg,           \* the config::DetectRegister of the configuration file
  detectReg,         \* its modbus::DetectRegister<RegisterKind>
  wordsRead,         \* the words read for it
  parsed,            \* Option<DetectRegister<RegisterValue>>: the result of parse
  matched            \* the result of DetectRegister::matches

\* one execution of the discover process (process/discover.rs)
VARIABLES
  dphase,            \* position of Process::execute: "idle" | "running" | "done"
  addresses,         \* what scan_modbus returned
  candidates,        \* addresses.flat_map(Destination::for)
  probe,             \* the futures of each (destination, device kind)
  rows,              \* the devices table of the store
  dbFailed           \* history: a store call failed on the store's side

\* the push and update processes (process/push.rs, process/update.rs)
VARIABLES
  table,             \* highest id of the table of the job (measurements / health)
  logs,              \* the logs table, in insertion order
  exec,              \* the executions the scheduler started
  payloads,          \* history: the payloads handed to the cloud client
  clock              \* chrono::Utc::now(), counted in log timestamps taken

\* the measure process consolidating the ticks of one device's stream
\* (process/measure.rs)
VARIABLES
  streamDevice,      \* kind and id of the device the stream was opened for
  tickRegisters,     \* the registers of the tick: Left id, Right measurement
  measurements,      \* the measurements table
  consolidated       \* what consolidate returned for the tick

\* the runtime's interval tasks and their shutdown (runtime.rs)
VARIABLES
  ctrlc,             \* position of start_async: "waiting" | "cancelling" | "joining" | "done"
  tokens,            \* Interval.token of each interval: cancelled or not
  intervalTask,      \* the task spawned by interval! for each handler
  joined             \* how many Interval.handle kill_intervals! has awaited

\* one call of Connection::read_span (modbus/conn.rs)
VARIABLES
  readSpan           \* its locals, its position and the reads it has issued

spanVars == <<readSpan>>
parseVars == <<host, confReg, detectReg, wordsRead, parsed, matched>>
discoverVars == <<dphase, addresses, candidates, probe, rows, dbFailed>>
pushVars == <<table, logs, exec, payloads, clock>>
measureVars == <<streamDevice, tickRegisters, measurements, consolidated>>
runtimeVars == <<ctrlc, tokens, intervalTask, joined>>
jobVars == <<parseVars, discoverVars, pushVars, measureVars, runtimeVars, spanVars>>
offParse == <<discoverVars, pushVars, measureVars, runtimeVars, spanVars>>
offDiscover == <<parseVars, pushVars, measureVars, runtimeVars, spanVars>>
offPush == <<parseVars, discoverVars, measureVars, runtimeVars, spanVars>>
offMeasure == <<parseVars, discoverVars, pushVars, runtimeVars, spanVars>>
offRuntime == <<parseVars, discoverVars, pushVars, measureVars, spanVars>>
offSpan == <<parseVars, discoverVars, pushVars, measureVars, runtimeVars>>
coreVars == <<env, queue, sendersAlive, taskState, handle, pc, pass, idx, cur, oneshots,
              streams, oneshotsToRemove, streamsToRemove, connections, terminate,
              metrics, params, req, cpc, ret, reply, sent, tpc, tres, tret,
              lastPR, connectFailed, lastConnect, reads>>
vars == <<coreVars, jobVars>>

workerVars == <<pc, pass, idx, cur, oneshots, streams, oneshotsToRemove,
                streamsToRemove, connections, terminate, metrics, params>>
clientVars == <<req, cpc, ret>>
termVars == <<tpc, tres, tret, handle>>
ghostVars == <<lastPR, connectFailed, lastConnect, reads>>

\* ----------------------------------------------------------------- values
\* a carrier; `queued` records whether send_async put it on the request channel
NoReq == [kind |-> "None", dest |-> 0, n |-> 0, queued |-> FALSE]
NoRet == [t |-> "None", resp |-> <<>>]
MsgOk(resp) == [t |-> "Ok", resp |-> resp]
MsgFailedToConnect == [t |-> "FailedToConnect", resp |-> <<>>]
RetChannelDisconnected == [t |-> "ChannelDisconnected", resp |-> <<>>]
\* locals of read and parameterized_read; `issued` (the slots read over the
\* connection in this call of read) and `outs` (the outcomes of the attempts
\* of this parameterized_read) are history
NoCur == [j |-> 0, data |-> <<>>, retried |-> 0, errors |-> <<>>, issued |-> <<>>,
          outs |-> <<>>]
NoPR == [id |-> 0, j |-> 0, attempts |-> 0, res |-> "None", d |-> None, errors |-> <<>>,
         issued |-> <<>>, outs |-> <<>>]
NoSent == [n |-> 0, last |-> NoRet]
\* attempts made, attempts failed, successful attempts of each span, and
\* whether Connection::connect returned a connection for the request
NoReads == [attempts |-> 0, failed |-> 0, ok |-> [j \in 1..MaxSpans |-> 0],
            connected |-> FALSE]
\* `held`: connections had an entry for the destination when connect was called
NoConnect == [id |-> 0, slave |-> None, result |-> "None", tcp |-> FALSE, held |-> FALSE]
AllNone(n) == [i \in 1..n |-> None]
\* Metrics.errors, each destination's Vec<ReadError> kept by its length
EmptyMetrics == [d \in Dests |-> 0]

\* outcomes of one holding-register read under a deadline, as the device and
\* the network decide them: completed with data, completed with an I/O error,
\* or not completed when the deadline elapsed
AttemptOutcomes == {"ok", "ioerr", "elapsed"}

\* the registers a device answers with for the j-th span of a request
DeviceData(dest, j) == 10 * dest + j

Min(a, b) == IF a < b THEN a ELSE b

\* ------------------------------------------------------ connection.rs
\* Connection::simple_read_impl: the result of `read.timeout(t).await` is
\* matched as Ok(Ok(response)) | Ok(Err(e)) | Err(e).  The outer Err is the
\* elapsed deadline, the inner Err is the I/O error of a read that completed.
SimpleReadImpl(out, dest, j) ==
  IF out = "ok"
    THEN [ok |-> TRUE, d |-> DeviceData(dest, j), err |-> [variant |-> "None", cause |-> "none"]]
  ELSE IF out = "ioerr"
    THEN [ok |-> FALSE, d |-> None, err |-> [variant |-> "Timeout", cause |-> "ioerr"]]
    ELSE [ok |-> FALSE, d |-> None, err |-> [variant |-> "Connection", cause |-> "elapsed"]]

\* one turn of the while loop of Connection::parameterized_read on its locals
\* (response, retried, errors), for the attempt outcome `out`
ParameterizedReadStep(c, out, dest) ==
  LET r == SimpleReadImpl(out, dest, c.j) IN
  [response |-> IF r.ok THEN r.d ELSE None,
   errors |-> IF r.ok THEN c.errors ELSE Append(c.errors, r.err),
   retried |-> c.retried + 1]

\* mutant: the retry budget counted as extra attempts after the first
ParameterizedReadContinues_ExtraAttempt(response, retried, retries) ==
  response = None /\ retried # retries + 1

\* the loop condition `response.is_none() && retried != retries`
ParameterizedReadContinues(response, retried, retries) ==
  response = None /\ retried # retries

\* what TcpStream::connect can do
TcpOutcomes == {"ok", "refused"}

\* Connection::connect_standalone: TcpStream::connect(socket).await?
ConnectStandalone(tcp) ==
  [result |-> IF tcp = "ok" THEN "Ok" ELSE "Connect", tcp |-> TRUE]

\* mutant: connect_slave without the range check
ConnectSlave_NoRangeCheck(slave, tcp) ==
  [result |-> IF tcp = "ok" THEN "Ok" ELSE "Connect", tcp |-> TRUE]

\* Connection::connect_slave: the range check returns ConnectError::Slave
\* before TcpStream::connect is called
ConnectSlave(slave, tcp) ==
  IF slave < MinDevice \/ slave > MaxDevice
    THEN [result |-> "Slave", tcp |-> FALSE]
    ELSE [result |-> IF tcp = "ok" THEN "Ok" ELSE "Connect", tcp |-> TRUE]

\* Connection::connect: the match on destination.slave
Connect(slave, tcp) ==
  IF slave = None THEN ConnectStandalone(tcp) ELSE ConnectSlave(slave, tcp)

\* ------------------------------------------------------------ worker.rs
\* the reply channel of a request: flume::bounded(1) for send,
\* flume::bounded(1024) for stream
ReplyCap(rid) == IF req[rid].kind = "Stream" THEN StreamCap ELSE OneshotCap

\* the receiver of the reply channel is held by the pending send() future or
\* by the stream handed to the caller
ReceiverAlive(rid) == cpc[rid] \in {"waiting", "streaming"}

\* flume try_send succeeds iff a receiver exists and the buffer has room
CanSend(rid) == ReceiverAlive(rid) /\ Len(reply[rid]) < ReplyCap(rid)

ReplyAfter(rid, msg) ==
  IF CanSend(rid) THEN [reply EXCEPT ![rid] = Append(@, msg)] ELSE reply

SentAfter(rid, msg) ==
  IF CanSend(rid)
    THEN [sent EXCEPT ![rid] = [n |-> Min(@.n + 1, MaxSent), last |-> msg]]
    ELSE sent

\* mutant: the Storage built with an empty partial
NewStorage_EmptyPartial(rid) ==
  [id |-> rid, dest |-> req[rid].dest, n |-> req[rid].n, partial |-> <<>>]

\* Task::add_new_request: the Storage of a carrier and the list it is pushed to
NewStorage(rid) ==
  [id |-> rid, dest |-> req[rid].dest, n |-> req[rid].n, partial |-> AllNone(req[rid].n)]

AddNewRequest(rid) ==
  IF req[rid].kind = "Oneshot"
    THEN [oneshots |-> Append(oneshots, NewStorage(rid)), streams |-> streams]
    ELSE [oneshots |-> Append(oneshots, NewStorage(rid)), streams |-> streams]

\* the match of try_recv_new_request / recv_async_new_request on one message
HandleRequest(m) ==
  IF m = TerminateMsg
    THEN /\ terminate' = TRUE
         /\ UNCHANGED <<oneshots, streams>>
    ELSE /\ oneshots' = AddNewRequest(m).oneshots
         /\ streams' = AddNewRequest(m).streams
         /\ UNCHANGED terminate

\* mutant: retain that removes nothing
Retain_KeepsAll(list, marked) == list

\* Vec::retain with the ids marked for removal
Retain(list, marked) == SelectSeq(list, LAMBDA s : s.id \notin marked)

\* mutant: the responses collected in reverse slot order
ReadResult_Reversed(data) ==
  IF \A i \in 1..Len(data) : data[i] # None
    THEN [right |-> TRUE, val |-> [i \in 1..Len(data) |-> data[Len(data) + 1 - i]]]
    ELSE [right |-> FALSE, val |-> data]

\* mutant: a read without slots counts as incomplete
ReadResult_EmptyIsLeft(data) ==
  IF data # <<>> /\ \A i \in 1..Len(data) : data[i] # None
    THEN [right |-> TRUE, val |-> SelectSeq(data, LAMBDA x : x # None)]
    ELSE [right |-> FALSE, val |-> data]

\* Task::read, the tail: Right(responses) when every slot is Some, else Left
ReadResult(data) ==
  IF \A i \in 1..Len(data) : data[i] # None
    THEN [right |-> TRUE, val |-> SelectSeq(data, LAMBDA x : x # None)]
    ELSE [right |-> FALSE, val |-> data]

\* mutant: every slot is read, whether it is Some or None
NextUnread_EverySlot(data, j) == j

\* Task::read, the zip loop: the next slot at or after j that is None and so
\* is read over the connection; Len(data) + 1 when there is none
RECURSIVE NextUnread(_, _)
NextUnread(data, j) ==
  IF j > Len(data) THEN j
  ELSE IF data[j] = None THEN j
  ELSE NextUnread(data, j + 1)

\* a parameterized_read with retries = 0 returns Err([]) without awaiting
NextAwait(data, j) ==
  IF params.retries = 0 THEN Len(data) + 1 ELSE NextUnread(data, j)

CurList == IF pass = "oneshot" THEN oneshots ELSE streams
CurItem == CurList[idx]

\* Task::execute, the match on the result of read in either pass
AfterRead(res) ==
  LET id == CurItem.id IN
  /\ idx' = idx + 1
  /\ pc' = "loop"
  /\ cur' = NoCur
  /\ IF pass = "oneshot"
       THEN IF res.right
         THEN /\ reply' = ReplyAfter(id, MsgOk(res.val))
              /\ sent' = SentAfter(id, MsgOk(res.val))
              /\ oneshotsToRemove' = oneshotsToRemove \cup {id}
              /\ UNCHANGED <<oneshots, streams, streamsToRemove>>
         ELSE /\ oneshots' = [oneshots EXCEPT ![idx].partial = res.val]
              /\ UNCHANGED <<reply, sent, streams, oneshotsToRemove, streamsToRemove>>
       ELSE IF res.right
         THEN /\ reply' = ReplyAfter(id, MsgOk(res.val))
              /\ sent' = SentAfter(id, MsgOk(res.val))
              /\ IF CanSend(id)
                   THEN /\ streams' = [streams EXCEPT ![idx].partial = AllNone(CurItem.n)]
                        /\ UNCHANGED streamsToRemove
                   ELSE /\ streamsToRemove' = streamsToRemove \cup {id}
                        /\ UNCHANGED streams
              /\ UNCHANGED <<oneshots, oneshotsToRemove>>
         ELSE /\ streams' = [streams EXCEPT ![idx].partial = res.val]
              /\ UNCHANGED <<reply, sent, oneshots, oneshotsToRemove, streamsToRemove>>

\* Task::read from slot j on with the slots `data`: suspend at the next read
\* attempt, or return when no slot is left to read
ReadFrom(data, j, issued) ==
  LET k == NextAwait(data, j) IN
  IF k > Len(data)
    THEN AfterRead(ReadResult(data))
    ELSE /\ pc' = "read"
         /\ cur' = [j |-> k, data |-> data, retried |-> 0, errors |-> <<>>,
                    issued |-> Append(issued, k), outs |-> <<>>]
         /\ UNCHANGED <<idx, oneshots, streams, oneshotsToRemove, streamsToRemove,
                        reply, sent>>

TaskRuns == taskState = "running"

\* mutant: the lookup in connections never finds an entry
GetMut_AlwaysNone(dest) == FALSE

\* Task::attempt_connection: connections.get_mut(&storage.destination) is Some
GetMut(dest) == dest \in connections

\* The task is suspended at an await point (the blocking receive, a connect,
\* a read attempt) or is gone.  The code between two await points runs
\* without yielding, so the other processes take their steps only here.
Suspended ==
  \/ ~TaskRuns
  \/ pc \in {"read", "done"}
  \/ pc = "top" /\ oneshots = <<>> /\ streams = <<>>
  \/ pc = "loop" /\ idx <= Len(CurList) /\ CurItem.dest \notin connections
\* the RequestReceiver lives in the task until the task is dropped
ReceiverOfRequestsAlive == taskState \in {"running", "aborting"}

\* ---------------------------------------------------------- register.rs
\* Strings are sequences of bytes (UTF-8); a u16 word is 0..65535.
IntegerVariants == {"U16", "U32", "U64", "S16", "S32", "S64"}
IsSigned(variant) == variant \in {"S16", "S32", "S64"}
\* size_of the scalar of an integer variant, in bytes
SizeOf(variant) ==
  IF variant \in {"U16", "S16"} THEN 2
  ELSE IF variant \in {"U32", "S32"} THEN 4
  ELSE 8

\* NumericRegisterKind.multiplier: Option<f64>, here a fraction num / den
NoMultiplier == [some |-> FALSE, num |-> 1, den |-> 1]
Multiplier(num, den) == [some |-> TRUE, num |-> num, den |-> den]
NumericKind(variant, multiplier) ==
  [variant |-> variant, multiplier |-> multiplier, length |-> SizeOf(variant) \div 2]
StringKind(length) == [variant |-> "String", multiplier |-> NoMultiplier, length |-> length]

\* the None of Option<...<RegisterValue>>, and the value before parse ran
NoValue == [variant |-> "None", v |-> 0]
Unparsed == [variant |-> "Unparsed", v |-> 0]

Lo(word) == word % 256        \* (value & 0xFF) as u8
Hi(word) == word \div 256     \* (value >> 8) as u8
Reverse(s) == [i \in 1..Len(s) |-> s[Len(s) + 1 - i]]

\* mutant: the little-endian path without .rev()
ParseNumericBytes_NoRev(h, words) ==
  [k \in 1..(2 * Len(words)) |->
     IF k % 2 = 1 THEN Lo(words[(k + 1) \div 2]) ELSE Hi(words[k \div 2])]

\* parse_numeric_bytes: each word as [low, high]; the words reversed first on
\* a little-endian host, in order on a big-endian host
ParseNumericBytes(h, words) ==
  LET ws == IF h = "little" THEN Reverse(words) ELSE words IN
  [k \in 1..(2 * Len(ws)) |->
     IF k % 2 = 1 THEN Lo(ws[(k + 1) \div 2]) ELSE Hi(ws[k \div 2])]

\* parse_string_bytes: the words in order, each as [high, low] on a
\* little-endian host and as [low, high] on a big-endian host
ParseStringBytes(h, words) ==
  [k \in 1..(2 * Len(words)) |->
     LET w == words[(k + 1) \div 2] IN
     IF h = "little"
       THEN IF k % 2 = 1 THEN Hi(w) ELSE Lo(w)
       ELSE IF k % 2 = 1 THEN Lo(w) ELSE Hi(w)]

\* <$type>::from_ne_bytes: the bytes are the native image of the scalar, so
\* the most significant byte is the last one on a little-endian host and the
\* first one on a big-endian host; signed types are two's complement
MsbFirst(h, bytes) == IF h = "little" THEN Reverse(bytes) ELSE bytes
RECURSIVE Horner(_, _, _)
Horner(acc, base, digits) ==
  IF digits = <<>> THEN acc
  ELSE Horner(acc * base + Head(digits), base, Tail(digits))
FromNeBytes(h, variant, bytes) ==
  LET d == MsbFirst(h, bytes)
      first == IF IsSigned(variant) /\ d[1] >= 128 THEN d[1] - 256 ELSE d[1]
  IN Horner(first, 256, Tail(d))

\* mutant: the product truncated toward zero instead of rounded
RoundF64_Truncates(num, den) ==
  IF num >= 0 THEN num \div den ELSE -((-num) \div den)

\* f64::round of num / den (den > 0): to the nearest integer, halves away
\* from zero
RoundF64(num, den) ==
  IF num >= 0 THEN (2 * num + den) \div (2 * den)
  ELSE -((2 * (-num) + den) \div (2 * den))

\* `as $type` from f64: saturating.  The upper ends of u32, u64 and i64 are
\* beyond the integers of the checker and are not reached by the inputs.
SaturatingCast(variant, x) ==
  IF variant = "U16" THEN (IF x < 0 THEN 0 ELSE IF x > 65535 THEN 65535 ELSE x)
  ELSE IF variant = "S16"
    THEN (IF x < -32768 THEN -32768 ELSE IF x > 32767 THEN 32767 ELSE x)
  ELSE IF variant \in {"U32", "U64"} THEN (IF x < 0 THEN 0 ELSE x)
  ELSE x

\* parse_integer_register_kind!
ParseIntegerRegisterKind(h, variant, words, multiplier) ==
  LET bytes == ParseNumericBytes(h, words) IN
  IF Len(bytes) # SizeOf(variant) THEN NoValue
  ELSE LET value == FromNeBytes(h, variant, bytes) IN
       [variant |-> variant,
        v |-> IF multiplier.some
                THEN SaturatingCast(variant,
                                    RoundF64(value * multiplier.num, multiplier.den))
                ELSE value]

\* String::from_utf8(bytes).ok(): bytes below 0x80 are valid; of the other
\* bytes the model draws only 0xFF, which no UTF-8 string contains
Utf8Valid(bytes) == \A i \in 1..Len(bytes) : bytes[i] < 128

\* UnparsedRegister::parse, the match on self.storage (integer and String
\* arms; the floating kinds are not drawn)
Parse(h, storage, words) ==
  IF storage.variant \in IntegerVariants
    THEN ParseIntegerRegisterKind(h, storage.variant, words, storage.multiplier)
    ELSE LET bytes == ParseStringBytes(h, words) IN
         IF Utf8Valid(bytes) THEN [variant |-> "String", v |-> bytes] ELSE NoValue

\* Display for the integer scalars: decimal digits, "-" first when negative
RECURSIVE DecimalDigits(_)
DecimalDigits(n) ==
  IF n >= 0
    THEN IF n < 10 THEN <<48 + n>>
         ELSE Append(DecimalDigits(n \div 10), 48 + (n % 10))
    ELSE LET last == (10 - (n % 10)) % 10 IN
         IF n > -10 THEN <<48 + last>>
         ELSE Append(DecimalDigits((n + last) \div 10), 48 + last)

\* Display for RegisterValue
Display(value) ==
  IF value.variant = "String" THEN value.v
  ELSE IF value.v < 0 THEN <<45>> \o DecimalDigits(value.v)
  ELSE DecimalDigits(value.v)

\* regex::Regex::new and Regex::is_match for the patterns drawn: literal
\* bytes, with ^ (94) in front and $ (36) at the end as anchors; a pattern
\* with an unclosed ( (40) does not compile
RegexCompiles(pattern) == \A i \in 1..Len(pattern) : pattern[i] # 40
IsMatch(pattern, text) ==
  LET atStart == pattern # <<>> /\ pattern[1] = 94
      atEnd == pattern # <<>> /\ pattern[Len(pattern)] = 36
      literal == SubSeq(pattern, IF atStart THEN 2 ELSE 1,
                        IF atEnd THEN Len(pattern) - 1 ELSE Len(pattern))
  IN \E i \in 1..(Len(text) - Len(literal) + 1) :
       /\ SubSeq(text, i, i + Len(literal) - 1) = literal
       /\ atStart => i = 1
       /\ atEnd => i + Len(literal) - 1 = Len(text)

\* DetectRegister<RegisterValue>::matches
Matches(match, value) ==
  LET storage == Display(value) IN
  IF match.either = "Left" THEN match.string = storage
  ELSE IsMatch(match.string, storage)

\* ------------------------------------------------------- config/file.rs
\* to_modbus_register_kind: variant by variant, with its payload
ToModbusRegisterKind(kind) ==
  IF kind.variant = "String" THEN StringKind(kind.length)
  ELSE NumericKind(kind.variant, kind.multiplier)

\* to_modbus_detect_register: Right(regex) when the match string compiles as
\* a regular expression, Left(match string) otherwise
ToModbusDetectRegister(register) ==
  [storage |-> ToModbusRegisterKind(register.kind),
   match |-> [either |-> IF RegexCompiles(register.match) THEN "Right" ELSE "Left",
              string |-> register.match]]

NoRegister == [storage |-> StringKind(0), match |-> [either |-> "None", string |-> <<>>]]
NoConfRegister == [kind |-> StringKind(0), match |-> <<>>]

\* no register is being parsed
ParseIdle ==
  /\ host = "little"
  /\ confReg = NoConfRegister
  /\ detectReg = NoRegister
  /\ wordsRead = <<>>
  /\ parsed = Unparsed
  /\ matched = "none"

\* ------------------------------------------------ process/discover.rs
\* the futures of one (destination, kind): its position, the response to its
\* detect read, whether its id read was issued, and the id of its match
NoResponse == [ok |-> FALSE, words |-> <<>>]
NoProbe == [stage |-> "idle", detect |-> NoResponse, idRead |-> FALSE, id |-> <<>>]

\* no discover execution is running
DiscoverIdle ==
  /\ dphase = "idle"
  /\ addresses = <<>>
  /\ candidates = <<>>
  /\ probe = <<>>
  /\ rows = <<>>
  /\ dbFailed = FALSE

\* ------------------------------------- process/push.rs, process/update.rs
\* no push or update execution has been started
PushIdle ==
  /\ table = <<>>
  /\ logs = <<>>
  /\ exec = <<>>
  /\ payloads = <<>>
  /\ clock = 0

\* --------------------------------------------------- process/measure.rs
\* no stream is being consolidated
NoDevice == [kind |-> <<>>, id |-> <<>>]
MeasureIdle ==
  /\ streamDevice = NoDevice
  /\ tickRegisters = <<>>
  /\ measurements = <<>>
  /\ consolidated = "none"

\* ------------------------------------------------------------ runtime.rs
\* the runtime has not been started
\* ------------------------------------------------------- modbus/conn.rs
\* no call of read_span
NoSpanCall == [pc |-> "idle", retries |-> 0, quantity |-> 0, parses |-> FALSE,
               retried |-> 0, result |-> "none", issued |-> 0, afterParse |-> 0,
               ret |-> "none"]
SpanIdle == readSpan = NoSpanCall

RuntimeIdle ==
  /\ ctrlc = "idle"
  /\ tokens = <<>>
  /\ intervalTask = <<>>
  /\ joined = 0

\* --------------------------------------------------------------- Init
\* Destination.slave of the destinations of a scenario; here every
\* destination d is the slave d of one address
ValidSlaves == [d \in Dests |-> d]

\* Worker::new: an empty unbounded channel, a spawned task, Some(handle)
\* the scenarios explored: many requests with one terminate() call, or one
\* request with many terminate() calls and the larger retry budget
Scenarios ==
  {[reqs |-> MaxReq, terms |-> 1, track |-> FALSE, retries |-> 1, slaves |-> ValidSlaves],
   [reqs |-> 1, terms |-> MaxTerm, track |-> FALSE, retries |-> MaxRetries, slaves |-> ValidSlaves]}

InitWith(scenarios) ==
  /\ env \in scenarios
  /\ queue = <<>>
  /\ sendersAlive = TRUE
  /\ taskState = "running"
  /\ handle = TRUE
  /\ pc = "top"
  /\ pass = "oneshot"
  /\ idx = 1
  /\ cur = NoCur
  /\ oneshots = <<>>
  /\ streams = <<>>
  /\ oneshotsToRemove = {}
  /\ streamsToRemove = {}
  /\ connections = {}
  /\ terminate = FALSE
  /\ metrics = EmptyMetrics
  /\ params = [retries |-> env.retries, timeout |-> InitialTimeout]
  /\ req = [r \in Rids |-> NoReq]
  /\ cpc = [r \in Rids |-> "idle"]
  /\ ret = [r \in Rids |-> NoRet]
  /\ reply = [r \in Rids |-> <<>>]
  /\ sent = [r \in Rids |-> NoSent]
  /\ tpc = [c \in Callers |-> "idle"]
  /\ tres = [c \in Callers |-> "none"]
  /\ tret = [c \in Callers |-> "none"]
  /\ lastPR = NoPR
  /\ connectFailed = {}
  /\ lastConnect = NoConnect
  /\ reads = [r \in Rids |-> NoReads]

Init == InitWith(Scenarios) /\ ParseIdle /\ DiscoverIdle /\ PushIdle /\ MeasureIdle /\ RuntimeIdle /\ SpanIdle

\* ------------------------------------------------- the task's end
\* The task value is dropped: its lists (and their reply senders), its
\* connections and its RequestReceiver.  Whether the carriers still queued in
\* the request channel are dropped with the receiver is the channel library's
\* choice; both outcomes are allowed.
DropTask(state) ==
  /\ taskState' = state
  /\ pc' = "done"
  /\ pass' = "oneshot"
  /\ idx' = 1
  /\ cur' = NoCur
  /\ oneshots' = <<>>
  /\ streams' = <<>>
  /\ oneshotsToRemove' = {}
  /\ streamsToRemove' = {}
  /\ connections' = {}
  /\ metrics' = EmptyMetrics
  /\ lastPR' = NoPR
  /\ queue' \in {queue, <<>>}
  /\ UNCHANGED <<terminate, params>>

\* --------------------------------------------------- Task::execute
\* top of the loop: with both lists empty, recv_async blocks for one request;
\* Disconnected (no sender, empty queue) returns from execute
RecvAsync ==
  /\ TaskRuns /\ pc = "top"
  /\ IF oneshots = <<>> /\ streams = <<>>
       THEN \/ /\ queue # <<>>
               /\ HandleRequest(Head(queue))
               /\ queue' = Tail(queue)
               /\ pc' = "drain"
               /\ lastPR' = NoPR
               /\ UNCHANGED <<taskState, pass, idx, cur, oneshotsToRemove,
                              streamsToRemove, connections, metrics, params>>
            \/ /\ queue = <<>> /\ ~sendersAlive
               /\ DropTask("finished")
       ELSE /\ pc' = "drain"
            /\ lastPR' = NoPR
            /\ UNCHANGED <<queue, taskState, pass, idx, cur, oneshots, streams,
                           oneshotsToRemove, streamsToRemove, connections,
                           terminate, metrics, params>>
  /\ UNCHANGED <<env, jobVars, sendersAlive, clientVars, reply, sent, termVars, connectFailed, lastConnect, reads>>

\* mutant: the drain loop treats Disconnected like Empty and goes on
TryRecv_IgnoresDisconnect ==
  /\ TaskRuns /\ pc = "drain"
  /\ \/ /\ queue # <<>>
        /\ HandleRequest(Head(queue))
        /\ queue' = Tail(queue)
        /\ UNCHANGED <<taskState, pc, pass, idx, cur, oneshotsToRemove,
                       streamsToRemove, connections, metrics, params, lastPR>>
     \/ /\ queue = <<>>
        /\ pc' = "loop"
        /\ pass' = "oneshot"
        /\ idx' = 1
        /\ metrics' = EmptyMetrics
        /\ oneshotsToRemove' = {}
        /\ UNCHANGED <<queue, taskState, cur, oneshots, streams, streamsToRemove,
                       connections, terminate, params, lastPR>>
  /\ UNCHANGED <<env, jobVars, sendersAlive, clientVars, reply, sent, termVars, connectFailed, lastConnect, reads>>

\* the drain loop: try_recv until Empty (start the one-shot pass with fresh
\* metrics and an empty removal list) or Disconnected (return)
TryRecv ==
  /\ TaskRuns /\ pc = "drain"
  /\ \/ /\ queue # <<>>
        /\ HandleRequest(Head(queue))
        /\ queue' = Tail(queue)
        /\ UNCHANGED <<taskState, pc, pass, idx, cur, oneshotsToRemove,
                       streamsToRemove, connections, metrics, params, lastPR>>
     \/ /\ queue = <<>> /\ sendersAlive
        /\ pc' = "loop"
        /\ pass' = "oneshot"
        /\ idx' = 1
        /\ metrics' = EmptyMetrics
        /\ oneshotsToRemove' = {}
        /\ UNCHANGED <<queue, taskState, cur, oneshots, streams, streamsToRemove,
                       connections, terminate, params, lastPR>>
     \/ /\ queue = <<>> /\ ~sendersAlive
        /\ DropTask("finished")
  /\ UNCHANGED <<env, jobVars, sendersAlive, clientVars, reply, sent, termVars, connectFailed, lastConnect, reads>>

\* Task::attempt_connection for the storage at idx, and what execute does
\* with its result: Existing/New go on to read, Fail marks the id in
\* oneshots_to_remove (in the stream pass too) and continues
AttemptConnection ==
  /\ TaskRuns /\ pc = "loop" /\ idx <= Len(CurList)
  /\ LET item == CurItem IN
     \/ /\ GetMut(item.dest)
        /\ UNCHANGED <<connections, connectFailed, lastConnect, reads>>
        /\ ReadFrom(item.partial, 1, <<>>)
     \/ /\ ~GetMut(item.dest)
        /\ \E tcp \in TcpOutcomes :
             LET c == Connect(env.slaves[item.dest], tcp) IN
             /\ lastConnect' = [id |-> item.id, slave |-> env.slaves[item.dest],
                                result |-> c.result, tcp |-> c.tcp,
                                held |-> item.dest \in connections]
             /\ IF c.result = "Ok"
                  THEN /\ connections' = connections \cup {item.dest}
                       /\ reads' = IF env.track
                                     THEN [reads EXCEPT ![item.id].connected = TRUE]
                                     ELSE reads
                       /\ UNCHANGED connectFailed
                       /\ ReadFrom(item.partial, 1, <<>>)
                  ELSE /\ UNCHANGED reads
                       /\ reply' = ReplyAfter(item.id, MsgFailedToConnect)
                       /\ sent' = SentAfter(item.id, MsgFailedToConnect)
                       /\ oneshotsToRemove' = oneshotsToRemove \cup {item.id}
                       /\ connectFailed' = connectFailed \cup {item.id}
                       /\ idx' = idx + 1
                       /\ UNCHANGED <<pc, cur, oneshots, streams, streamsToRemove,
                                      connections>>
  /\ lastPR' = NoPR
  /\ UNCHANGED <<env, jobVars, queue, sendersAlive, taskState, pass, terminate, metrics, params,
                 clientVars, termVars>>

\* mutant: the entry of a destination is dropped when a read on it failed
ConnectionsAfterRead_DropOnError(response, dest) ==
  IF response = None THEN connections \ {dest} ELSE connections

\* Task::read and the match on its result in Task::execute: the connection is
\* borrowed for the read and the map is not touched, whatever the read returns
ConnectionsAfterRead(response, dest) == connections

\* history: the attempt for span j of request rid with outcome `out` counted
ReadsAfter(rid, j, out) ==
  [reads EXCEPT ![rid] =
     [attempts |-> @.attempts + 1,
      failed |-> IF out = "ok" THEN @.failed ELSE @.failed + 1,
      ok |-> IF out = "ok" THEN [@.ok EXCEPT ![j] = Min(@ + 1, 2)] ELSE @.ok,
      connected |-> @.connected]]

\* one attempt of parameterized_read for span cur.j (backoff sleep, then the
\* read under the deadline), with the synchronous code up to the next await
ReadAttempt ==
  /\ TaskRuns /\ pc = "read"
  /\ \E out \in AttemptOutcomes :
       LET item == CurItem
           st == ParameterizedReadStep(cur, out, item.dest)
           more == ParameterizedReadContinues(st.response, st.retried, params.retries)
           data == [cur.data EXCEPT ![cur.j] = st.response]
       IN
       /\ env.track /\ out # "ok" => reads[item.id].failed < MaxFailed
       /\ reads' = IF env.track THEN ReadsAfter(item.id, cur.j, out) ELSE reads
       /\ IF more
         THEN /\ cur' = [cur EXCEPT !.retried = st.retried, !.errors = st.errors,
                                     !.outs = Append(@, out)]
              /\ lastPR' = NoPR
              /\ UNCHANGED <<pc, idx, oneshots, streams, oneshotsToRemove,
                             streamsToRemove, reply, sent, metrics, connections>>
         ELSE /\ lastPR' = [id |-> item.id, j |-> cur.j, attempts |-> st.retried,
                            res |-> IF st.response # None THEN "Ok" ELSE "Err",
                            d |-> st.response, errors |-> st.errors,
                            issued |-> cur.issued, outs |-> Append(cur.outs, out)]
              /\ metrics' = IF st.response # None THEN metrics
                            ELSE [metrics EXCEPT ![item.dest] = @ + Len(st.errors)]
              /\ connections' = ConnectionsAfterRead(st.response, item.dest)
              /\ ReadFrom(data, cur.j + 1, cur.issued)
  /\ UNCHANGED <<env, jobVars, queue, sendersAlive, taskState, pass, terminate,
                 params, clientVars, termVars, connectFailed, lastConnect>>

\* end of the one-shot for-loop: retain, then the `if self.terminate` branch
EndOneshotPass ==
  /\ TaskRuns /\ pc = "loop" /\ pass = "oneshot" /\ idx > Len(oneshots)
  /\ oneshots' = Retain(oneshots, oneshotsToRemove)
  /\ IF terminate
       THEN /\ streams' = <<>>
            /\ pc' = "tune"
            /\ UNCHANGED <<pass, idx, streamsToRemove>>
       ELSE /\ pass' = "stream"
            /\ idx' = 1
            /\ streamsToRemove' = {}
            /\ UNCHANGED <<pc, streams>>
  /\ lastPR' = NoPR
  /\ UNCHANGED <<env, jobVars, queue, sendersAlive, taskState, cur, oneshotsToRemove, connections,
                 terminate, metrics, params, clientVars, reply, sent, termVars,
                 connectFailed, lastConnect, reads>>

\* end of the stream for-loop: retain with streams_to_remove
EndStreamPass ==
  /\ TaskRuns /\ pc = "loop" /\ pass = "stream" /\ idx > Len(streams)
  /\ streams' = Retain(streams, streamsToRemove)
  /\ pc' = "tune"
  /\ lastPR' = NoPR
  /\ UNCHANGED <<env, jobVars, queue, sendersAlive, taskState, pass, idx, cur, oneshots,
                 oneshotsToRemove, streamsToRemove, connections, terminate, metrics,
                 params, clientVars, reply, sent, termVars, connectFailed, lastConnect, reads>>

\* mutant: tune lowers the retry budget by the errors of the iteration
TuneParams_LowerRetries(p, m) ==
  [p EXCEPT !.retries = IF \E d \in Dests : m[d] > 0 THEN @ - 1 ELSE @]

\* Task::tune: dbg!(metrics); the metrics are dropped, params are untouched
TuneParams(p, m) == p

Tune ==
  /\ TaskRuns /\ pc = "tune"
  /\ params' = TuneParams(params, metrics)
  /\ metrics' = EmptyMetrics
  /\ pc' = "top"
  /\ pass' = "oneshot"
  /\ idx' = 1
  /\ oneshotsToRemove' = {}
  /\ streamsToRemove' = {}
  /\ lastPR' = NoPR
  /\ UNCHANGED <<env, jobVars, queue, sendersAlive, taskState, cur, oneshots, streams, connections,
                 terminate, clientVars, reply, sent, termVars, connectFailed, lastConnect, reads>>

\* an abort requested through the AbortHandle takes effect at an await point
TaskCancelled ==
  /\ taskState = "aborting"
  /\ DropTask("aborted")
  /\ UNCHANGED <<env, jobVars, sendersAlive, clientVars, reply, sent, termVars, connectFailed, lastConnect, reads>>

\* ------------------------------------------------------ Worker::send
\* a reply sender lives in the queued Carrier, then in the task's Storage
RECURSIVE SeqToSet(_)
SeqToSet(q) == IF q = <<>> THEN {} ELSE {Head(q)} \cup SeqToSet(Tail(q))
StorageIds(list) == {list[i].id : i \in 1..Len(list)}
SenderAlive(rid) ==
  rid \in SeqToSet(queue) \cup StorageIds(oneshots) \cup StorageIds(streams)

\* request ids and callers are used in increasing order
NextRid(rid) == rid <= env.reqs /\ cpc[rid] = "idle" /\ \A r \in Rids : r < rid => cpc[r] # "idle"
NextCaller(c) == c <= env.terms /\ tpc[c] = "idle" /\ \A c2 \in Callers : c2 < c => tpc[c2] # "idle"

\* Carrier::new and send_async on the request channel, which fails iff the
\* receiver is gone; `waitpc` is where the caller goes on success
Submit(rid, kind, d, n, waitpc) ==
  /\ Suspended /\ sendersAlive /\ NextRid(rid)
  /\ req' = [req EXCEPT ![rid] = [kind |-> kind, dest |-> d, n |-> n,
                                  queued |-> ReceiverOfRequestsAlive]]
  /\ IF ReceiverOfRequestsAlive
       THEN /\ queue' = Append(queue, rid)
            /\ cpc' = [cpc EXCEPT ![rid] = waitpc]
            /\ UNCHANGED ret
       ELSE /\ cpc' = [cpc EXCEPT ![rid] = "returned"]
            /\ ret' = [ret EXCEPT ![rid] = RetChannelDisconnected]
            /\ UNCHANGED queue
  /\ UNCHANGED <<env, jobVars, sendersAlive, taskState, workerVars, reply, sent, termVars,
                 ghostVars>>

\* destinations are named in the order of their first use
UsedDests == {req[r].dest : r \in Rids} \ {0}
NextDests == {d \in Dests : d <= Cardinality(UsedDests) + 1}

\* Worker::send up to the await on the reply channel
SendCall(rid) ==
  \E d \in NextDests, n \in 0..MaxSpans : Submit(rid, "Oneshot", d, n, "waiting")

\* mutant: the worker's Err is not propagated (the `?` forgotten)
SendReturnValue_ErrSwallowed(rid) ==
  IF reply[rid] # <<>> THEN MsgOk(Head(reply[rid]).resp) ELSE RetChannelDisconnected

\* Worker::send, receiver.recv_async(): the message, or ChannelDisconnected
\* when the channel is empty and every sender is gone
SendReturnValue(rid) ==
  IF reply[rid] # <<>> THEN Head(reply[rid]) ELSE RetChannelDisconnected

SendRecv(rid) ==
  /\ Suspended /\ cpc[rid] = "waiting"
  /\ reply[rid] # <<>> \/ ~SenderAlive(rid)
  /\ ret' = [ret EXCEPT ![rid] = SendReturnValue(rid)]
  /\ reply' = [reply EXCEPT ![rid] = <<>>]
  /\ cpc' = [cpc EXCEPT ![rid] = "returned"]
  /\ UNCHANGED <<env, jobVars, queue, sendersAlive, taskState, workerVars, req, sent, termVars,
                 ghostVars>>

\* Worker::stream: returns the receiver as a stream once the carrier is queued
StreamCall(rid) ==
  \E d \in NextDests, n \in 0..MaxSpans : Submit(rid, "Stream", d, n, "streaming")

\* the consumer polls the stream: the next item, or the end of the stream
StreamNext(rid) ==
  /\ Suspended /\ cpc[rid] = "streaming"
  /\ IF reply[rid] # <<>>
       THEN /\ ret' = [ret EXCEPT ![rid] = Head(reply[rid])]
            /\ reply' = [reply EXCEPT ![rid] = Tail(@)]
            /\ UNCHANGED cpc
       ELSE /\ ~SenderAlive(rid)
            /\ cpc' = [cpc EXCEPT ![rid] = "ended"]
            /\ UNCHANGED <<ret, reply>>
  /\ UNCHANGED <<env, jobVars, queue, sendersAlive, taskState, workerVars, req, sent, termVars,
                 ghostVars>>

\* the caller drops the pending send() future or the stream: the receiver of
\* the reply channel is gone
ReceiverDrop(rid) ==
  /\ Suspended /\ cpc[rid] \in {"waiting", "streaming"}
  /\ cpc' = [cpc EXCEPT ![rid] = "dropped"]
  /\ reply' = [reply EXCEPT ![rid] = <<>>]
  /\ UNCHANGED <<env, jobVars, queue, sendersAlive, taskState, workerVars, req, ret, sent,
                 termVars, ghostVars>>

\* ------------------------------------------------- Worker::terminate
\* `let result = self.sender.send_async(TaskRequest::Terminate).await`
TerminateSend(c) ==
  /\ Suspended /\ sendersAlive /\ NextCaller(c)
  /\ IF ReceiverOfRequestsAlive
       THEN /\ queue' = Append(queue, TerminateMsg)
            /\ tres' = [tres EXCEPT ![c] = "Ok"]
       ELSE /\ tres' = [tres EXCEPT ![c] = "Err"]
            /\ UNCHANGED queue
  /\ tpc' = [tpc EXCEPT ![c] = "sent"]
  /\ UNCHANGED <<env, jobVars, sendersAlive, taskState, workerVars, clientVars, reply, sent,
                 tret, handle, ghostVars>>

\* mutant: the result of send_async is dropped
TerminateReturnValue_AlwaysOk(result) == "Ok"

\* `result.map_err(|error| TerminateError::ChannelDisconnected(..))`
TerminateReturnValue(result) ==
  IF result = "Ok" THEN "Ok" ELSE "ChannelDisconnected"

\* lock the mutex and take the handle out; with None, return at once
TerminateTakeHandle(c) ==
  /\ Suspended /\ tpc[c] = "sent"
  /\ handle' = FALSE
  /\ IF handle
       THEN /\ tpc' = [tpc EXCEPT ![c] = "join"]
            /\ UNCHANGED tret
       ELSE /\ tpc' = [tpc EXCEPT ![c] = "done"]
            /\ tret' = [tret EXCEPT ![c] = TerminateReturnValue(tres[c])]
  /\ UNCHANGED <<env, jobVars, queue, sendersAlive, taskState, workerVars, clientVars, reply,
                 sent, tres, ghostVars>>

\* what the join does to the task: a task still running when the timeout
\* elapses gets abort_handle.abort()
JoinOutcome(state) == IF state = "running" THEN "aborting" ELSE state

\* mutant: the handle awaited without a timeout
TerminateJoin_NoTimeout(c) ==
  /\ Suspended /\ tpc[c] = "join"
  /\ taskState \in {"finished", "aborted"}
  /\ tpc' = [tpc EXCEPT ![c] = "done"]
  /\ tret' = [tret EXCEPT ![c] = TerminateReturnValue(tres[c])]
  /\ UNCHANGED <<env, jobVars, queue, sendersAlive, taskState, workerVars, clientVars, reply,
                 sent, tres, handle, ghostVars>>

\* handle.timeout(termination_timeout): the task finished in time, or the
\* timeout elapsed and the task is aborted; then return
TerminateJoin(c) ==
  /\ Suspended /\ tpc[c] = "join"
  /\ taskState' = JoinOutcome(taskState)
  /\ tpc' = [tpc EXCEPT ![c] = "done"]
  /\ tret' = [tret EXCEPT ![c] = TerminateReturnValue(tres[c])]
  /\ UNCHANGED <<env, jobVars, queue, sendersAlive, workerVars, clientVars, reply, sent, tres,
                 handle, ghostVars>>

\* the last clone of the Worker is dropped: no call is in progress on it
DropWorker ==
  /\ Suspended /\ sendersAlive
  /\ \A r \in Rids : cpc[r] # "waiting"
  /\ \A c \in Callers : tpc[c] \notin {"sent", "join"}
  /\ sendersAlive' = FALSE
  /\ UNCHANGED <<env, jobVars, queue, taskState, workerVars, clientVars, reply, sent, termVars,
                 ghostVars>>

\* ------------------------------------------------------ specification
Next ==
  \/ RecvAsync
  \/ TryRecv
  \/ AttemptConnection
  \/ ReadAttempt
  \/ EndOneshotPass
  \/ EndStreamPass
  \/ Tune
  \/ TaskCancelled
  \/ \E rid \in Rids : SendCall(rid)
  \/ \E rid \in Rids : SendRecv(rid)
  \/ \E rid \in Rids : StreamCall(rid)
  \/ \E rid \in Rids : StreamNext(rid)
  \/ \E rid \in Rids : ReceiverDrop(rid)
  \/ \E c \in Callers : TerminateSend(c)
  \/ \E c \in Callers : TerminateTakeHandle(c)
  \/ \E c \in Callers : TerminateJoin(c)
  \/ DropWorker

Spec == Init /\ [][Next]_vars

TypeOK ==
  /\ taskState \in {"running", "aborting", "aborted", "finished"}
  /\ pc \in {"top", "drain", "loop", "read", "tune", "done"}
  /\ Len(queue) <= MaxReq + MaxTerm

\* the liveness specification: one request, MaxTerm callers of terminate().
\* The runtime schedules every task that can run: the worker task is weakly
\* fair; a caller's step is enabled whenever the worker is suspended, which
\* recurs, so callers are strongly fair.
LiveScenarios == {[reqs |-> 1, terms |-> MaxTerm, track |-> FALSE, retries |-> 1, slaves |-> ValidSlaves]}
InitLive == InitWith(LiveScenarios) /\ ParseIdle /\ DiscoverIdle /\ PushIdle /\ MeasureIdle /\ RuntimeIdle /\ SpanIdle
WorkerStep ==
  \/ RecvAsync \/ TryRecv \/ AttemptConnection \/ ReadAttempt
  \/ EndOneshotPass \/ EndStreamPass \/ Tune \/ TaskCancelled
SpecLive ==
  /\ InitLive /\ [][Next]_vars
  /\ WF_vars(WorkerStep)
  /\ \A c \in Callers : SF_vars(TerminateTakeHandle(c)) /\ SF_vars(TerminateJoin(c))

\* the connect specification: one request to a destination whose slave is
\* any of the Option<u8> values below, among them both ends of the device
\* range, its two outer neighbours and the standalone destination
SlaveIds == {None, 0, MinDevice, MaxDevice, MaxDevice + 1, 255}
ConnectScenarios ==
  {[reqs |-> 1, terms |-> 1, track |-> FALSE, retries |-> 1, slaves |-> [d \in Dests |-> s]] :
     s \in SlaveIds}
InitConnect == InitWith(ConnectScenarios) /\ ParseIdle /\ DiscoverIdle /\ PushIdle /\ MeasureIdle /\ RuntimeIdle /\ SpanIdle
SpecConnect == InitConnect /\ [][Next]_vars

\* the read-counting specification: the attempts made for each request are
\* counted, and a request sees at most MaxFailed failed attempts; many
\* requests with one attempt per read and no terminate() call, or one
\* request with ReadRetries attempts per read
ReadRetries == 2
ReadScenarios ==
  {[reqs |-> MaxReq, terms |-> 0, track |-> TRUE, retries |-> 1, slaves |-> ValidSlaves],
   [reqs |-> 1, terms |-> 1, track |-> TRUE, retries |-> ReadRetries, slaves |-> ValidSlaves]}
InitReads == InitWith(ReadScenarios) /\ ParseIdle /\ DiscoverIdle /\ PushIdle /\ MeasureIdle /\ RuntimeIdle /\ SpanIdle
SpecReads == InitReads /\ [][Next]_vars

\* ------------------------------------------------- the parser's inputs
\* The parse specification: a detect register of the configuration is
\* converted, parsed from the words read for it and matched, on either host.
Hosts == {"little", "big"}
Words16 == {0, 5, 6, 15, 50, 1000, 32768, 65535}
Words32 == {0, 1000, 32767, 32768, 65535}
Words64 == {0, 1000, 65535}
WordsString == {16706, 17220, 17664, 0, 65345}   \* "AB", "CD", "E\0", "\0\0", 0xFF41
Multipliers ==
  {NoMultiplier, Multiplier(1, 10), Multiplier(1, 2), Multiplier(2, 1), Multiplier(-1, 1)}
MatchStrings == {<<53>>, <<94, 53, 36>>, <<40, 53>>}   \* "5", "^5$", "(5"
SeqsOf(W, lo, hi) == UNION {[1..n -> W] : n \in lo..hi}

ConfKinds ==
  {NumericKind(v, m) : v \in IntegerVariants, m \in Multipliers}
    \cup {StringKind(n) : n \in 0..MaxWords}
ConfRegisters ==
  {r \in [kind : ConfKinds, match : MatchStrings] :
     \/ r.match = <<53>>
     \/ r.kind.variant = "U16" /\ ~r.kind.multiplier.some}

\* the words a read can return for a register: as many as its quantity for a
\* String, and also too few or too many for the integer kinds
WordsFor(kind) ==
  IF kind.variant = "String" THEN SeqsOf(WordsString, kind.length, kind.length)
  ELSE IF SizeOf(kind.variant) = 2 THEN SeqsOf(Words16, 0, 2)
  ELSE IF SizeOf(kind.variant) = 4 THEN SeqsOf(Words32, 1, 3)
  ELSE SeqsOf(Words64, 3, 4)

\* the inputs whose scalars the integers of the checker hold: the value needs
\* at most 31 bits and a sign, and at most 24 bits when it is multiplied
InDomain(h, kind, words) ==
  IF kind.variant = "String" \/ 2 * Len(words) # SizeOf(kind.variant) THEN TRUE
  ELSE LET d == MsbFirst(h, ParseNumericBytes(h, words))
           n == Len(d)
           negative == IsSigned(kind.variant) /\ d[1] >= 128
           fits == IF negative
                     THEN /\ \A i \in 1..(n - 4) : d[i] = 255
                          /\ n > 4 => d[n - 3] >= 128
                     ELSE /\ \A i \in 1..(n - 4) : d[i] = 0
                          /\ n >= 4 => d[n - 3] < 128
           value == FromNeBytes(h, kind.variant, ParseNumericBytes(h, words))
       IN IF ~fits THEN FALSE
          ELSE IF kind.multiplier.some
            THEN value <= 16777216 /\ value >= -16777216
            ELSE TRUE

NoCalls == [reqs |-> 0, terms |-> 0, track |-> FALSE, retries |-> 1, slaves |-> ValidSlaves]

InitParse ==
  /\ InitWith({NoCalls})
  /\ host \in Hosts
  /\ confReg \in ConfRegisters
  /\ detectReg = NoRegister
  /\ wordsRead \in WordsFor(confReg.kind)
  /\ InDomain(host, confReg.kind, wordsRead)
  /\ parsed = Unparsed
  /\ matched = "none"
  /\ DiscoverIdle
  /\ PushIdle
  /\ MeasureIdle
  /\ RuntimeIdle
  /\ SpanIdle

\* the configuration is turned into the worker's register (services build
\* their registers with to_modbus_detect_register)
ConvertRegister ==
  /\ confReg # NoConfRegister /\ detectReg = NoRegister
  /\ detectReg' = ToModbusDetectRegister(confReg)
  /\ UNCHANGED <<coreVars, offParse, host, confReg, wordsRead, parsed, matched>>

\* UnparsedRegister::parse on the words read
ParseRegister ==
  /\ detectReg # NoRegister /\ parsed.variant = "Unparsed"
  /\ parsed' = Parse(host, detectReg.storage, wordsRead)
  /\ UNCHANGED <<coreVars, offParse, host, confReg, detectReg, wordsRead, matched>>

\* DetectRegister::matches on a parsed register
MatchRegister ==
  /\ parsed.variant \notin {"Unparsed", "None"} /\ matched = "none"
  /\ matched' = IF Matches(detectReg.match, parsed) THEN "yes" ELSE "no"
  /\ UNCHANGED <<coreVars, offParse, host, confReg, detectReg, wordsRead, parsed>>

NextParse == ConvertRegister \/ ParseRegister \/ MatchRegister
SpecParse == InitParse /\ [][NextParse]_vars

\* ------------------------------------------------- the discover process
\* Destination::for: one destination per slave of the half-open range
\* min_device().0..max_device().0, then the standalone destination
DestinationFor(address) ==
  [i \in 1..(MaxDevice - MinDevice) |-> [address |-> address, slave |-> MinDevice + i - 1]]
    \o <<[address |-> address, slave |-> None]>>

\* addresses.into_iter().flat_map(Destination::for)
RECURSIVE FlatMapDestinationFor(_)
FlatMapDestinationFor(addrs) ==
  IF addrs = <<>> THEN <<>>
  ELSE DestinationFor(Head(addrs)) \o FlatMapDestinationFor(Tail(addrs))

\* config.modbus.devices: two device kinds, "A" (65) and "B" (66); A is
\* detected by a U16 and a String register, B by one U16 register, and each
\* has one U16 id register
U16Kind == NumericKind("U16", NoMultiplier)
Kinds == {"A", "B"}
Devices ==
  [k \in Kinds |->
     IF k = "A"
       THEN [kind |-> <<65>>,
             detect |-> <<ToModbusDetectRegister([kind |-> U16Kind, match |-> <<94, 53, 36>>]),
                          ToModbusDetectRegister([kind |-> StringKind(1), match |-> <<65, 66>>])>>,
             id |-> <<U16Kind>>]
       ELSE [kind |-> <<66>>,
             detect |-> <<ToModbusDetectRegister([kind |-> U16Kind, match |-> <<94, 54, 36>>])>>,
             id |-> <<U16Kind>>]]

\* the destinations behind which a device may answer; every other
\* destination is silent, its reads fail and its futures return None at once
ProbedSlaves == {MinDevice, MaxDevice, None}
ScanAddress == 1
ProbedDestinations == {[address |-> ScanAddress, slave |-> s] : s \in ProbedSlaves}
Pairs == [destination : ProbedDestinations, kind : Kinds]

\* what a one-shot read of the registers returns: an error, or the words of
\* each register
DetectWords(k) ==
  IF k = "A" THEN {<<<<5>>, <<16706>>>>, <<<<6>>, <<16706>>>>, <<<<5>>, <<16707>>>>,
                   <<<<5>>, <<65345>>>>}
  ELSE {<<<<6>>>>, <<<<5>>>>}
IdWords == {<<<<7>>>>, <<<<8>>>>}
Responses(W) == {NoResponse} \cup {[ok |-> TRUE, words |-> w] : w \in W}

\* read_from_destination: the one-shot read of the registers' spans, every
\* register parsed from its words; an error when the read fails or a
\* register does not parse
ReadFromDestination(h, storages, response) ==
  LET values == [i \in 1..Len(storages) |-> Parse(h, storages[i], response.words[i])] IN
  IF ~response.ok THEN [ok |-> FALSE, values |-> <<>>]
  ELSE IF \E i \in 1..Len(storages) : values[i].variant = "None"
    THEN [ok |-> FALSE, values |-> <<>>]
    ELSE [ok |-> TRUE, values |-> values]

\* match_device with `any` in the place of `all`
MatchDevice_Any(h, device, response) ==
  LET read == ReadFromDestination(h, [i \in 1..Len(device.detect) |-> device.detect[i].storage],
                                  response) IN
  IF ~read.ok THEN FALSE
  ELSE \E i \in 1..Len(device.detect) : Matches(device.detect[i].match, read.values[i])

\* match_device: .ok()? on the read, then all(|register| register.matches())
MatchDevice(h, device, response) ==
  LET read == ReadFromDestination(h, [i \in 1..Len(device.detect) |-> device.detect[i].storage],
                                  response) IN
  IF ~read.ok THEN FALSE
  ELSE \A i \in 1..Len(device.detect) : Matches(device.detect[i].match, read.values[i])

\* modbus::make_id: the device kind, a delimiter, and the textual form of
\* every id register in declaration order
IdDelimiter == 45
RECURSIVE ConcatDisplay(_)
ConcatDisplay(values) ==
  IF values = <<>> THEN <<>> ELSE Display(Head(values)) \o ConcatDisplay(Tail(values))
MakeId(kind, idRegisters) == kind \o <<IdDelimiter>> \o ConcatDisplay(idRegisters)

\* the store's devices table devices(id PK, kind, status, address, slave, seen,
\* pinged).  get_device: is there a row of the id
HasDevice(id) == \E i \in 1..Len(rows) : rows[i].id = id

\* insert_device: a plain insert; the primary key rejects a second row of
\* one id
InsertDevice(device) ==
  IF HasDevice(device.id) THEN [ok |-> FALSE, rows |-> rows]
  ELSE [ok |-> TRUE, rows |-> Append(rows, device)]

\* update_device_destination: the destination of the row of the id
UpdateDeviceDestination(id, destination) ==
  [i \in 1..Len(rows) |->
     IF rows[i].id = id THEN [rows[i] EXCEPT !.slave = destination.slave] ELSE rows[i]]

\* a device row left by an earlier execution: kind A with id register 7,
\* last seen behind slave 5 and since marked unreachable
OldRow == [id |-> MakeId(<<65>>, <<[variant |-> "U16", v |-> 7]>>), kind |-> <<65>>,
           status |-> "Unreachable", slave |-> 5]

StoreOutcomes == {"ok", "err"}
AwaitingDetect == {"detect"}
AwaitingId == {"detect", "matched"}
Returned == {"unprobed", "unmatched", "noid", "consolidated", "failed"}

InitDiscover ==
  /\ InitWith({NoCalls})
  /\ ParseIdle
  /\ PushIdle
  /\ MeasureIdle
  /\ RuntimeIdle
  /\ SpanIdle
  /\ dphase = "idle"
  /\ addresses = <<>>
  /\ candidates = <<>>
  /\ probe = [p \in Pairs |-> NoProbe]
  /\ rows \in {<<>>, <<OldRow>>}
  /\ dbFailed = FALSE

\* execute up to the first join_all: the scan, the candidate destinations,
\* and one match_destination future per destination
Execute ==
  /\ dphase = "idle"
  /\ \E scanned \in {<<>>, <<ScanAddress>>} :
       LET found == FlatMapDestinationFor(scanned) IN
       /\ addresses' = scanned
       /\ candidates' = found
       /\ probe' = [p \in Pairs |->
            IF \E i \in 1..Len(found) : found[i] = p.destination
              THEN [NoProbe EXCEPT !.stage = "detect"]
              ELSE [NoProbe EXCEPT !.stage = "unprobed"]]
  /\ dphase' = "running"
  /\ UNCHANGED <<coreVars, offDiscover, rows, dbFailed>>

\* match_device of one (destination, kind) returns
MatchDeviceReturns(p) ==
  /\ probe[p].stage = "detect"
  /\ \E response \in Responses(DetectWords(p.kind)) :
       probe' = [probe EXCEPT ![p] =
         [@ EXCEPT !.detect = response,
                   !.stage = IF MatchDevice(host, Devices[p.kind], response)
                               THEN "matched" ELSE "unmatched"]]
  /\ UNCHANGED <<coreVars, offDiscover, dphase, addresses, candidates, rows, dbFailed>>

\* match_id of a matched kind, once every match_device of the destination
\* has returned (the inner join_all of match_destination)
MatchId(p) ==
  /\ probe[p].stage = "matched"
  /\ \A q \in Pairs : q.destination = p.destination => probe[q].stage \notin AwaitingDetect
  /\ \E response \in Responses(IdWords) :
       LET read == ReadFromDestination(host, Devices[p.kind].id, response) IN
       probe' = [probe EXCEPT ![p] =
         IF read.ok
           THEN [@ EXCEPT !.idRead = TRUE, !.stage = "found",
                          !.id = MakeId(Devices[p.kind].kind, read.values)]
           ELSE [@ EXCEPT !.idRead = TRUE, !.stage = "noid"]]
  /\ UNCHANGED <<coreVars, offDiscover, dphase, addresses, candidates, rows, dbFailed>>

\* the db::Device that consolidate inserts for a match
NewDevice(p) ==
  [id |-> probe[p].id, kind |-> Devices[p.kind].kind, status |-> "Healthy",
   slave |-> p.destination.slave]

\* consolidate up to its first await: get_device returns, once every
\* match_destination has returned (the inner join_all of execute)
ConsolidateGetDevice(p) ==
  /\ probe[p].stage = "found"
  /\ \A q \in Pairs : probe[q].stage \notin AwaitingId
  /\ \E outcome \in StoreOutcomes :
       IF outcome = "err"
         THEN /\ probe' = [probe EXCEPT ![p].stage = "failed"]
              /\ dbFailed' = TRUE
         ELSE /\ probe' = [probe EXCEPT ![p].stage =
                             IF HasDevice(probe[p].id) THEN "some" ELSE "none"]
              /\ UNCHANGED dbFailed
  /\ UNCHANGED <<coreVars, offDiscover, dphase, addresses, candidates, rows>>

\* the Ok(Some(_)) arm: update_device_destination returns
ConsolidateUpdate(p) ==
  /\ probe[p].stage = "some"
  /\ \E outcome \in StoreOutcomes :
       IF outcome = "err"
         THEN /\ probe' = [probe EXCEPT ![p].stage = "failed"]
              /\ dbFailed' = TRUE
              /\ UNCHANGED rows
         ELSE /\ rows' = UpdateDeviceDestination(probe[p].id, p.destination)
              /\ probe' = [probe EXCEPT ![p].stage = "consolidated"]
              /\ UNCHANGED dbFailed
  /\ UNCHANGED <<coreVars, offDiscover, dphase, addresses, candidates>>

\* the Ok(None) arm: insert_device returns; it fails on the store's side, or
\* because the id has been inserted since get_device returned
ConsolidateInsert(p) ==
  /\ probe[p].stage = "none"
  /\ \E outcome \in StoreOutcomes :
       LET inserted == InsertDevice(NewDevice(p)) IN
       IF outcome = "err"
         THEN /\ probe' = [probe EXCEPT ![p].stage = "failed"]
              /\ dbFailed' = TRUE
              /\ UNCHANGED rows
         ELSE /\ rows' = inserted.rows
              /\ probe' = [probe EXCEPT ![p].stage =
                             IF inserted.ok THEN "consolidated" ELSE "failed"]
              /\ UNCHANGED dbFailed
  /\ UNCHANGED <<coreVars, offDiscover, dphase, addresses, candidates>>

\* the outer join_all returns and execute logs its counts
ExecuteReturns ==
  /\ dphase = "running"
  /\ \A p \in Pairs : probe[p].stage \in Returned
  /\ dphase' = "done"
  /\ UNCHANGED <<coreVars, offDiscover, addresses, candidates, probe, rows, dbFailed>>

NextDiscover ==
  \/ Execute
  \/ \E p \in Pairs : MatchDeviceReturns(p)
  \/ \E p \in Pairs : MatchId(p)
  \/ \E p \in Pairs : ConsolidateGetDevice(p)
  \/ \E p \in Pairs : ConsolidateUpdate(p)
  \/ \E p \in Pairs : ConsolidateInsert(p)
  \/ ExecuteReturns
SpecDiscover == InitDiscover /\ [][NextDiscover]_vars

\* ------------------------------------------- the push and update processes
\* The scheduler starts an execution of a job at each tick of its schedule,
\* whether or not the previous execution of the job has returned.  The two
\* jobs share no rows (each reads its own table and the logs of its own
\* kind), so a behaviour follows the executions of one of them.
JobKinds == {"Push", "Update"}
Execs == 1..MaxExec
NoExec == [kind |-> "None", pc |-> "idle", cursor |-> 0, seen |-> 0, batch |-> {},
           status |-> "None", stamp |-> 0]

\* max_by(|x, y| x.id.cmp(&y.id)) of a batch that is not empty
MaxId(batch) == CHOOSE i \in batch : \A j \in batch : j <= i

\* get_last_successful_push_log / get_last_successful_update_log: the
\* successful log of the kind with the latest timestamp
SuccessfulLogs(kind) ==
  {n \in 1..Len(logs) : logs[n].kind = kind /\ logs[n].status = "Success"}
LastSuccessfulLog(kind) ==
  CHOOSE n \in SuccessfulLogs(kind) :
    \A m \in SuccessfulLogs(kind) : logs[m].timestamp <= logs[n].timestamp
LastPushedId(kind) ==
  IF SuccessfulLogs(kind) = {} THEN 0 ELSE logs[LastSuccessfulLog(kind)].last

\* get_measurements(from, limit) / get_health(from, limit): `where id > from
\* limit $2` without an order by: all the rows above `from` when they are at
\* most `limit`, any `limit` of them otherwise
GetMeasurements(kind, from, limit) ==
  LET above == {i \in 1..table[kind] : i > from} IN
  IF Cardinality(above) <= limit THEN {above}
  ELSE {b \in SUBSET above : Cardinality(b) = limit}

\* what the cloud client returns: Ok with a 2xx status, Ok with another
\* status, or Err (the request or the reading of the body failed)
CloudOutcomes == {"success", "http_failure", "transport_error"}

\* the match on the result with every Ok taken for a success
LogStatus_OkIsSuccess(outcome) ==
  IF outcome \in {"success", "http_failure"} THEN "Success" ELSE "Failure"

\* the match on the result of cloud.push / cloud.update
LogStatus(outcome) ==
  IF outcome = "success" THEN "Success" ELSE "Failure"

InProgress == {"cursor", "fetch", "call", "log"}

InitPush ==
  /\ InitWith({NoCalls})
  /\ ParseIdle
  /\ DiscoverIdle
  /\ MeasureIdle
  /\ RuntimeIdle
  /\ SpanIdle
  /\ table \in UNION {[{kind} -> 0..1] : kind \in JobKinds}
  /\ logs = <<>>
  /\ exec = [e \in Execs |-> NoExec]
  /\ payloads = <<>>
  /\ clock = 0

\* the measure / health process inserts a row (insert_measurements)
InsertRow(kind) ==
  /\ kind \in DOMAIN table
  /\ table[kind] < MaxRows
  /\ table' = [table EXCEPT ![kind] = @ + 1]
  /\ UNCHANGED <<coreVars, offPush, logs, exec, payloads, clock>>

\* add_job!: a tick of the schedule starts the job's closure, which creates
\* the process and calls execute
StartExecution(e, kind) ==
  /\ kind \in DOMAIN table
  /\ exec[e].pc = "idle"
  /\ \A d \in Execs : d < e => exec[d].pc # "idle"
  /\ Cardinality({d \in Execs : exec[d].pc \in InProgress}) < MaxOverlap
  /\ exec' = [exec EXCEPT ![e] = [NoExec EXCEPT !.kind = kind, !.pc = "cursor"]]
  /\ UNCHANGED <<coreVars, offPush, table, logs, payloads, clock>>

\* execute: get_last_successful_*_log returns
ReadCursor(e) ==
  /\ exec[e].pc = "cursor"
  /\ \E outcome \in StoreOutcomes :
       exec' = [exec EXCEPT ![e] =
         IF outcome = "err" THEN [@ EXCEPT !.pc = "failed"]
         ELSE [@ EXCEPT !.pc = "fetch", !.cursor = LastPushedId(exec[e].kind),
                        !.seen = Len(logs)]]
  /\ UNCHANGED <<coreVars, offPush, table, logs, payloads, clock>>

\* execute: get_measurements / get_health returns; without rows execute
\* returns Ok(())
FetchBatch(e) ==
  /\ exec[e].pc = "fetch"
  /\ \E outcome \in StoreOutcomes :
       IF outcome = "err"
         THEN exec' = [exec EXCEPT ![e] = [@ EXCEPT !.pc = "failed"]]
         ELSE \E batch \in GetMeasurements(exec[e].kind, exec[e].cursor, BatchLimit) :
                exec' = [exec EXCEPT ![e] =
                  IF batch = {} THEN [@ EXCEPT !.pc = "returned"]
                  ELSE [@ EXCEPT !.pc = "call", !.batch = batch]]
  /\ UNCHANGED <<coreVars, offPush, table, logs, payloads, clock>>

\* execute: cloud.push / cloud.update returns, and the log row is built
CloudCall(e) ==
  /\ exec[e].pc = "call"
  /\ clock' = clock + 1
  /\ \E outcome \in CloudOutcomes :
       /\ exec' = [exec EXCEPT ![e] = [@ EXCEPT !.pc = "log", !.status = LogStatus(outcome),
                                                !.stamp = clock + 1]]
       /\ payloads' = Append(payloads, [exec |-> e, kind |-> exec[e].kind,
                                        ids |-> exec[e].batch, outcome |-> outcome,
                                        logged |-> Len(logs)])
  /\ UNCHANGED <<coreVars, offPush, table, logs>>

\* execute: insert_log returns
InsertLog(e) ==
  /\ exec[e].pc = "log"
  /\ \E outcome \in StoreOutcomes :
       IF outcome = "err"
         THEN /\ exec' = [exec EXCEPT ![e] = [@ EXCEPT !.pc = "failed"]]
              /\ UNCHANGED logs
         ELSE /\ exec' = [exec EXCEPT ![e] = [@ EXCEPT !.pc = "done"]]
              /\ logs' = Append(logs, [exec |-> e, kind |-> exec[e].kind,
                                       timestamp |-> exec[e].stamp,
                                       last |-> MaxId(exec[e].batch),
                                       status |-> exec[e].status])
  /\ UNCHANGED <<coreVars, offPush, table, payloads, clock>>

NextPush ==
  \/ \E kind \in JobKinds : InsertRow(kind)
  \/ \E e \in Execs, kind \in JobKinds : StartExecution(e, kind)
  \/ \E e \in Execs : ReadCursor(e)
  \/ \E e \in Execs : FetchBatch(e)
  \/ \E e \in Execs : CloudCall(e)
  \/ \E e \in Execs : InsertLog(e)
SpecPush == InitPush /\ [][NextPush]_vars

\* ---------------------------------------------------- the measure process
\* the registers a tick of the stream carries: the id registers as Left, the
\* measurement registers, with their names, as Right
U16Value(v) == [variant |-> "U16", v |-> v]
IdRegisterValues == {[either |-> "Left", name |-> "", storage |-> U16Value(v)] : v \in {7, 8}}
MeasurementRegisterValues ==
  {[either |-> "Right", name |-> n, storage |-> U16Value(v)] : n \in {"p", "q"}, v \in {1, 7}}
MaxRegisters == 3
TickRegisters == SeqsOf(IdRegisterValues \cup MeasurementRegisterValues, 0, MaxRegisters)
MaxMeasurements == 2

\* registers.filter_map(Either::left) taking every register
IdRegisters_All(registers) ==
  [i \in 1..Len(registers) |-> registers[i].storage]

\* registers.iter().cloned().filter_map(Either::left)
IdRegisters(registers) ==
  LET left == SelectSeq(registers, LAMBDA r : r.either = "Left") IN
  [i \in 1..Len(left) |-> left[i].storage]

\* registers.into_iter().filter_map(Either::right)
MeasurementRegisters(registers) == SelectSeq(registers, LAMBDA r : r.either = "Right")

\* serialize_registers: the JSON object of (name, storage); a name that
\* comes again replaces the entry
SerializeRegisters(registers) ==
  [n \in {registers[i].name : i \in 1..Len(registers)} |->
     LET last == CHOOSE i \in 1..Len(registers) :
                   /\ registers[i].name = n
                   /\ \A j \in 1..Len(registers) : registers[j].name = n => j <= i
     IN registers[last].storage]

\* the devices whose streams are consolidated
StreamDevices ==
  {[kind |-> k, id |-> MakeId(k, ids)] :
     k \in {<<65>>, <<66>>},
     ids \in {<<U16Value(7)>>, <<U16Value(8)>>, <<U16Value(7), U16Value(8)>>}}

InitMeasure ==
  /\ InitWith({NoCalls})
  /\ ParseIdle
  /\ DiscoverIdle
  /\ PushIdle
  /\ RuntimeIdle
  /\ SpanIdle
  /\ streamDevice \in StreamDevices
  /\ tickRegisters \in TickRegisters
  /\ measurements = <<>>
  /\ consolidated = "none"

\* consolidate(kind, id_to_verify, registers) on the tick
Consolidate ==
  /\ streamDevice # NoDevice /\ consolidated = "none"
  /\ LET id_got == MakeId(streamDevice.kind, IdRegisters(tickRegisters)) IN
     IF id_got # streamDevice.id
       THEN /\ consolidated' = "IdMismatch"
            /\ UNCHANGED measurements
       ELSE \E outcome \in StoreOutcomes :
              IF outcome = "err"
                THEN /\ consolidated' = "StoreError"
                     /\ UNCHANGED measurements
                ELSE /\ consolidated' = "Ok"
                     /\ measurements' = Append(measurements,
                          [source |-> id_got,
                           data |-> SerializeRegisters(MeasurementRegisters(tickRegisters))])
  /\ UNCHANGED <<coreVars, offMeasure, streamDevice, tickRegisters>>

\* the stream yields its next tick
StreamTick ==
  /\ consolidated # "none" /\ Len(measurements) < MaxMeasurements
  /\ tickRegisters' \in TickRegisters
  /\ consolidated' = "none"
  /\ UNCHANGED <<coreVars, offMeasure, streamDevice, measurements>>

NextMeasure == Consolidate \/ StreamTick
SpecMeasure == InitMeasure /\ [][NextMeasure]_vars

\* ------------------------------------------------- the runtime's intervals
\* start_async: the intervals in the order of their creation
Intervals == <<"scan", "pull", "push">>
HandlerSteps == 2    \* await points of a handler at which it was pending

\* the task of interval!: at the select!, in the handler (pending at its
\* step-th await), in interval.tick(), or returned; abandoned: its handler
\* future was dropped before it completed; lateStart: its handler was polled
\* for the first time with the token already cancelled
NewTask == [pc |-> "select", step |-> 0, abandoned |-> FALSE, lateStart |-> FALSE]

\* tokio::select! polls its branches in an order it picks at random
PollOrders == {"cancelled", "handler"}

InitRuntime ==
  /\ InitWith({NoCalls})
  /\ ParseIdle
  /\ DiscoverIdle
  /\ PushIdle
  /\ MeasureIdle
  /\ SpanIdle
  /\ ctrlc = "waiting"
  /\ tokens = [i \in 1..Len(Intervals) |-> FALSE]
  /\ intervalTask = [i \in 1..Len(Intervals) |-> NewTask]
  /\ joined = 0

\* the loop reaches select! and polls it for the first time: with the token
\* cancelled the task returns, after starting and dropping the handler when
\* that branch is polled first; otherwise the handler runs to its first await
SelectPolled(i) ==
  /\ intervalTask[i].pc = "select"
  /\ IF tokens[i]
       THEN \E first \in PollOrders :
              intervalTask' = [intervalTask EXCEPT ![i] =
                [@ EXCEPT !.pc = "returned",
                          !.lateStart = @ \/ first = "handler",
                          !.abandoned = @ \/ first = "handler"]]
       ELSE intervalTask' = [intervalTask EXCEPT ![i] = [@ EXCEPT !.pc = "handler", !.step = 1]]
  /\ UNCHANGED <<coreVars, offRuntime, ctrlc, tokens, joined>>

\* the task is woken while its handler is pending: with the token cancelled
\* select! completes with the cancelled branch and drops the handler, unless
\* the handler branch was polled first and the handler finished in this poll
\* (then the pending tick is dropped); otherwise the handler moves on
HandlerPolled(i) ==
  /\ intervalTask[i].pc = "handler"
  /\ IF tokens[i]
       THEN \E first \in PollOrders :
              intervalTask' = [intervalTask EXCEPT ![i] =
                [@ EXCEPT !.pc = "returned",
                          !.abandoned =
                             @ \/ ~(first = "handler" /\ intervalTask[i].step = HandlerSteps)]]
       ELSE intervalTask' = [intervalTask EXCEPT ![i] =
              IF intervalTask[i].step < HandlerSteps
                THEN [@ EXCEPT !.step = @ + 1]
                ELSE [@ EXCEPT !.pc = "tick", !.step = 0]]
  /\ UNCHANGED <<coreVars, offRuntime, ctrlc, tokens, joined>>

\* the task is woken in interval.tick(): by the cancellation, and it returns,
\* or by the tick, and the loop goes round
TickPolled(i) ==
  /\ intervalTask[i].pc = "tick"
  /\ intervalTask' = [intervalTask EXCEPT ![i] =
       [@ EXCEPT !.pc = IF tokens[i] THEN "returned" ELSE "select"]]
  /\ UNCHANGED <<coreVars, offRuntime, ctrlc, tokens, joined>>

\* tokio::signal::ctrl_c() returns
CtrlC ==
  /\ ctrlc = "waiting"
  /\ ctrlc' = "cancelling"
  /\ UNCHANGED <<coreVars, offRuntime, tokens, intervalTask, joined>>

\* kill_intervals!: token.cancel() of the next interval
CancelToken(i) ==
  /\ ctrlc = "cancelling"
  /\ ~tokens[i] /\ \A j \in 1..(i - 1) : tokens[j]
  /\ tokens' = [tokens EXCEPT ![i] = TRUE]
  /\ ctrlc' = IF i = Len(Intervals) THEN "joining" ELSE ctrlc
  /\ UNCHANGED <<coreVars, offRuntime, intervalTask, joined>>

\* kill_intervals!: handle.await of the next interval returns
JoinHandle ==
  /\ ctrlc = "joining"
  /\ joined < Len(Intervals)
  /\ intervalTask[joined + 1].pc = "returned"
  /\ joined' = joined + 1
  /\ ctrlc' = IF joined + 1 = Len(Intervals) THEN "done" ELSE ctrlc
  /\ UNCHANGED <<coreVars, offRuntime, tokens, intervalTask>>

NextRuntime ==
  \/ \E i \in 1..Len(Intervals) : SelectPolled(i)
  \/ \E i \in 1..Len(Intervals) : HandlerPolled(i)
  \/ \E i \in 1..Len(Intervals) : TickPolled(i)
  \/ CtrlC
  \/ \E i \in 1..Len(Intervals) : CancelToken(i)
  \/ JoinHandle
SpecRuntime == InitRuntime /\ [][NextRuntime]_vars

\* ------------------------------------------------- Connection::read_span
\* read_span for a register of 1..MaxSpanQuantity words on a connection
\* built with retries in 0..MaxRetries; `parses` is whether the register
\* parses the words the device answers with.  History: issued, the calls of
\* read_holding_registers; afterParse, those made after register.parse
MaxSpanQuantity == 4
InitSpan ==
  /\ InitWith({NoCalls})
  /\ ParseIdle
  /\ DiscoverIdle
  /\ PushIdle
  /\ MeasureIdle
  /\ RuntimeIdle
  /\ readSpan \in {[NoSpanCall EXCEPT !.pc = "first", !.retries = r, !.quantity = q,
                                      !.parses = b] :
                     r \in 0..MaxRetries, q \in 1..MaxSpanQuantity, b \in BOOLEAN}

\* the read before the while loop; flatten_result leaves Ok(data), or the
\* error of the read or of the elapsed deadline
SpanFirstRead ==
  /\ readSpan.pc = "first"
  /\ \E out \in AttemptOutcomes :
       readSpan' = [readSpan EXCEPT !.pc = "while", !.result = out,
                                    !.issued = @ + 1]
  /\ UNCHANGED <<coreVars, offSpan>>

\* the loop condition `result.is_err() && retried != retries`
SpanContinues(result, retried, retries) == result # "ok" /\ retried # retries

\* one turn of the while loop: sleep(backoff), read again, retried + 1
SpanRetry ==
  /\ readSpan.pc = "while"
  /\ SpanContinues(readSpan.result, readSpan.retried, readSpan.retries)
  /\ \E out \in AttemptOutcomes :
       readSpan' = [readSpan EXCEPT !.result = out, !.retried = @ + 1,
                                    !.issued = @ + 1]
  /\ UNCHANGED <<coreVars, offSpan>>

\* after the loop: `result?`, then register.parse(data) and ok_or(Parse)
SpanReturn ==
  /\ readSpan.pc = "while"
  /\ ~SpanContinues(readSpan.result, readSpan.retried, readSpan.retries)
  /\ readSpan' = [readSpan EXCEPT
                    !.pc = "returned",
                    !.ret = IF readSpan.result # "ok" THEN "Err(Read)"
                            ELSE IF readSpan.parses THEN "Ok" ELSE "Err(Parse)"]
  /\ UNCHANGED <<coreVars, offSpan>>

NextSpan == SpanFirstRead \/ SpanRetry \/ SpanReturn
SpecSpan == InitSpan /\ [][NextSpan]_vars

\* ================================================================ claims
HeldIds == StorageIds(oneshots) \cup StorageIds(streams)
ExpectedResponse(rid) == [i \in 1..req[rid].n |-> DeviceData(req[rid].dest, i)]

\* C1: a request submitted with send gets at most one message on its reply
\* channel, an Ok or a FailedToConnect; once it got one, its Storage is only
\* still held inside the one-shot pass of that iteration, marked for removal,
\* and no read is in progress for it.
C1_OneshotRepliedOnce ==
  \A r \in Rids :
    req[r].kind = "Oneshot" =>
      /\ sent[r].n <= 1
      /\ sent[r].n = 1 => sent[r].last.t \in {"Ok", "FailedToConnect"}
      /\ (sent[r].n = 1 /\ r \in HeldIds) =>
           /\ pc \in {"loop", "read"} /\ pass = "oneshot"
           /\ r \in oneshotsToRemove
           /\ pc = "read" => CurItem.id # r

\* C1 witness: a two-span one-shot was answered with Ok and is gone from the
\* lists while the task runs on.
C1_Witness ==
  \E r \in Rids :
    /\ req[r].kind = "Oneshot" /\ req[r].n = 2
    /\ sent[r].n = 1 /\ sent[r].last.t = "Ok"
    /\ r \notin HeldIds /\ TaskRuns /\ pc = "top"

\* C2: the one-shot list never holds a Storage that came from a Stream
\* carrier, and the stream list none that came from a Oneshot carrier.
C2_RoutedByKind ==
  /\ \A i \in 1..Len(oneshots) : req[oneshots[i].id].kind = "Oneshot"
  /\ \A i \in 1..Len(streams) : req[streams[i].id].kind = "Stream"

\* C3: after a delivery on a stream's reply channel the request stays in the
\* worker for another cycle: a stream that got its first response, whose
\* consumer still holds the receiver, is still held by the running worker at
\* the top of the loop unless Terminate was dequeued.
C3_StreamKeptAfterDelivery ==
  \A r \in Rids :
    ( /\ req[r].kind = "Stream" /\ sent[r].n = 1 /\ sent[r].last.t = "Ok"
      /\ cpc[r] = "streaming" /\ TaskRuns /\ ~terminate /\ pc = "top" )
    => \E i \in 1..Len(streams) :
         streams[i].id = r /\ streams[i].partial = AllNone(req[r].n)

\* C4: every Ok reply carries one response per span, the i-th being the data
\* of the i-th span; a call of read issues exactly the slots that were None in
\* the stored partial, in increasing order.
C4_ResponsesInSpanOrder ==
  /\ \A r \in Rids :
       /\ \A k \in 1..Len(reply[r]) :
            reply[r][k].t = "Ok" => reply[r][k].resp = ExpectedResponse(r)
       /\ sent[r].last.t = "Ok" => sent[r].last.resp = ExpectedResponse(r)
       /\ ret[r].t = "Ok" => ret[r].resp = ExpectedResponse(r)
  /\ pc = "read" =>
       /\ cur.issued # <<>> /\ cur.issued[Len(cur.issued)] = cur.j
       /\ cur.issued =
            SelectSeq([i \in 1..cur.j |-> i], LAMBDA i : CurItem.partial[i] = None)

\* C4 witness: the second span of a request was read alone, its first slot
\* coming from the partial of an earlier iteration, and the Ok reply was sent.
C4_Witness ==
  /\ lastPR.res = "Ok" /\ lastPR.j = 2 /\ lastPR.issued = <<2>>
  /\ sent[lastPR.id].n = 1 /\ sent[lastPR.id].last = MsgOk(ExpectedResponse(lastPR.id))

\* C5: parameterized_read makes at most params.retries attempts, stops at the
\* first successful one and returns its data; when none succeeds its error
\* list has params.retries entries, the i-th from the i-th attempt.
C5_RetryBudget ==
  /\ pc = "read" =>
       /\ cur.retried < params.retries
       /\ Len(cur.errors) = cur.retried
       /\ \A i \in 1..Len(cur.outs) : cur.outs[i] # "ok"
  /\ lastPR.res # "None" =>
       /\ lastPR.attempts = Len(lastPR.outs)
       /\ lastPR.attempts <= params.retries
       /\ \A i \in 1..(lastPR.attempts - 1) : lastPR.outs[i] # "ok"
       /\ \A i \in 1..Len(lastPR.errors) : lastPR.errors[i].cause = lastPR.outs[i]
       /\ lastPR.res = "Ok" =>
            /\ lastPR.outs[lastPR.attempts] = "ok"
            /\ lastPR.d = DeviceData(req[lastPR.id].dest, lastPR.j)
            /\ Len(lastPR.errors) = lastPR.attempts - 1
       /\ lastPR.res = "Err" =>
            /\ lastPR.attempts = params.retries
            /\ Len(lastPR.errors) = params.retries

\* C5 witness: with retries = 3 against a device that never answers, every
\* attempt ran into the deadline and the error list has three entries.
C5_Witness ==
  /\ params.retries = 3
  /\ lastPR.res = "Err" /\ Len(lastPR.errors) = 3
  /\ lastPR.outs = <<"elapsed", "elapsed", "elapsed">>

\* C6: an attempt yields Timeout exactly when the deadline elapsed and
\* Connection exactly when the read completed with an I/O error.
ErrorNamedForCause(e) ==
  /\ e.variant = "Timeout" <=> e.cause = "elapsed"
  /\ e.variant = "Connection" <=> e.cause = "ioerr"
C6_ErrorVariants ==
  /\ \A i \in 1..Len(cur.errors) : ErrorNamedForCause(cur.errors[i])
  /\ \A i \in 1..Len(lastPR.errors) : ErrorNamedForCause(lastPR.errors[i])

\* C7: once Terminate was dequeued, no stream request is held by the worker
\* at the end of a loop iteration.
C7_StreamsDroppedOnTerminate ==
  (TaskRuns /\ terminate /\ pc = "top") =>
    \A r \in HeldIds : req[r].kind # "Stream"

\* C8: every call of terminate eventually returns.
C8_TerminateReturns ==
  \A c \in Callers : (tpc[c] \in {"sent", "join"}) ~> (tpc[c] = "done")

\* C8 witness: a caller that took the handle returned after aborting a task
\* that was in the middle of a read, and the other caller returned too.
C8_Witness ==
  /\ \A c \in Callers : tpc[c] = "done"
  /\ taskState = "aborting" /\ pc = "read"

\* C9: terminate returns ChannelDisconnected exactly when its Terminate
\* message was not enqueued, Ok otherwise, also after aborting the task.
C9_TerminateResult ==
  \A c \in Callers :
    /\ tres[c] = "Err" => taskState \in {"aborted", "finished"}
    /\ tpc[c] = "done" =>
         /\ tret[c] = "ChannelDisconnected" <=> tres[c] = "Err"
         /\ tret[c] = "Ok" <=> tres[c] = "Ok"

\* C9 witness: one caller returned Ok having aborted the task, a later one
\* could not enqueue and returned ChannelDisconnected.
C9_Witness ==
  /\ taskState = "aborted"
  /\ \E c \in Callers : tpc[c] = "done" /\ tret[c] = "Ok"
  /\ \E c \in Callers : tpc[c] = "done" /\ tret[c] = "ChannelDisconnected"

\* C10: send returns the one message the worker sent (Ok(responses), or
\* FailedToConnect when connecting failed) and ChannelDisconnected when there
\* is none.
C10_SendResult ==
  \A r \in Rids :
    (req[r].kind = "Oneshot" /\ cpc[r] = "returned") =>
      /\ ret[r] = IF sent[r].n = 0 THEN RetChannelDisconnected ELSE sent[r].last
      /\ ~req[r].queued => ret[r] = RetChannelDisconnected
      /\ ret[r].t \in {"Ok", "FailedToConnect", "ChannelDisconnected"}
      /\ r \in connectFailed <=> ret[r].t = "FailedToConnect"

\* C10 witness: a send whose carrier was enqueued returned ChannelDisconnected
\* after the task was aborted with the request pending, and another send
\* returned FailedToConnect.
C10_Witness ==
  /\ \E r \in Rids :
       /\ req[r].kind = "Oneshot" /\ req[r].queued /\ cpc[r] = "returned"
       /\ ret[r] = RetChannelDisconnected /\ taskState = "aborted"
  /\ \E r \in Rids :
       /\ req[r].kind = "Oneshot" /\ cpc[r] = "returned"
       /\ ret[r] = MsgFailedToConnect

\* C11: when the read that completes a cycle of a stream request returns, the
\* try_send on its reply channel decides what happens to the stream: if it
\* fails (no receiver, or the buffer is full) the stream is marked for removal
\* in that iteration and nothing is put on the channel; if it succeeds the
\* cycle is put on the channel and the stream is not marked, so that it is
\* read again in the next cycle.
CycleCompletes(r) ==
  /\ req[r].kind = "Stream"
  /\ pc = "read" /\ pc' = "loop" /\ CurItem.id = r
  /\ lastPR'.id = r
  /\ ReadResult([cur.data EXCEPT ![cur.j] = lastPR'.d]).right
C11_StreamRemovedIffSendFails ==
  [][\A r \in Rids :
       CycleCompletes(r) =>
         IF CanSend(r)
           THEN /\ r \notin oneshotsToRemove' \cup streamsToRemove'
                /\ reply'[r] = Append(reply[r], MsgOk(ExpectedResponse(r)))
           ELSE /\ r \in oneshotsToRemove' \cup streamsToRemove'
                /\ reply'[r] = reply[r]]_vars

\* C12: with every request sender dropped and the request queue empty, the
\* next receive of the running task - the blocking receive when both lists are
\* empty, the drain at the start of an iteration otherwise - makes it return
\* from execute; it does not start another pass over its pending requests.
AtReceive ==
  \/ pc = "top" /\ oneshots = <<>> /\ streams = <<>>
  \/ pc = "drain"
C12_ReturnsWhenDisconnected ==
  [][(TaskRuns /\ ~sendersAlive /\ queue = <<>> /\ AtReceive /\ pc' # pc)
       => (taskState' = "finished" /\ pc' = "done")]_vars

\* C12 witness: the task returned while a stream request that never got a
\* response, and whose consumer had kept the receiver, was still pending.
C12_Witness ==
  /\ taskState = "finished" /\ ~sendersAlive
  /\ \E r \in Rids :
       /\ req[r].kind = "Stream" /\ req[r].queued /\ req[r].n > 0
       /\ cpc[r] \in {"streaming", "ended"}
       /\ sent[r].n = 0 /\ r \notin connectFailed

\* C13: a call of Connection::connect made by the worker for a destination
\* whose slave id is outside 1..247 returns ConnectError::Slave and calls no
\* TcpStream::connect; for a slave id inside the range, or no slave, it calls
\* TcpStream::connect and returns ConnectError::Connect when that fails.  On
\* either error the connections map is unchanged, FailedToConnect is put on
\* the reply channel if it can take it, and the request is not read.
ConnectCalled ==
  /\ TaskRuns /\ pc = "loop" /\ idx <= Len(CurList)
  /\ CurItem.dest \notin connections
  /\ <<pc, idx>>' # <<pc, idx>>
C13_ConnectErrors ==
  [][ConnectCalled =>
       LET id == CurItem.id
           slave == env.slaves[CurItem.dest]
           c == lastConnect'
       IN
       /\ c.id = id /\ c.slave = slave
       /\ (slave # None /\ (slave < 1 \/ slave > 247)) <=> c.result = "Slave"
       /\ c.result = "Slave" => ~c.tcp
       /\ c.result \in {"Ok", "Connect"} => c.tcp
       /\ c.result \in {"Slave", "Connect"} =>
            /\ connections' = connections
            /\ reply' = ReplyAfter(id, MsgFailedToConnect)
            /\ pc' = "loop" /\ idx' = idx + 1 /\ id \in oneshotsToRemove'
       /\ c.result = "Ok" => connections' = connections \cup {CurItem.dest}]_vars

\* C13 witness: send() to slave 248 returned FailedToConnect after a connect
\* that ended with ConnectError::Slave, made no TCP connect and left the
\* connections map empty.
C13_Witness ==
  /\ lastConnect.result = "Slave" /\ lastConnect.slave = 248 /\ ~lastConnect.tcp
  /\ lastConnect.id \in Rids /\ ret[lastConnect.id] = MsgFailedToConnect
  /\ TaskRuns /\ connections = {}

\* C15: on a little-endian host an integer register without multiplier,
\* parsed from as many words as its type has, has the value whose base-65536
\* digits are the words, the first word the most significant; a signed kind
\* reads the same bits as two's complement.  With another number of words
\* parse returns None.
WordsValue(variant, words) ==
  LET first == IF IsSigned(variant) /\ words[1] >= 32768
                 THEN words[1] - 65536 ELSE words[1]
  IN Horner(first, 65536, Tail(words))
C15_FirstWordMostSignificant ==
  LET kind == detectReg.storage IN
  ( /\ host = "little" /\ parsed.variant # "Unparsed"
    /\ kind.variant \in IntegerVariants /\ ~kind.multiplier.some )
  => IF 2 * Len(wordsRead) = SizeOf(kind.variant)
       THEN /\ parsed.variant = kind.variant
            /\ parsed.v = WordsValue(kind.variant, wordsRead)
       ELSE parsed.variant = "None"

\* C15 witness: the words [0x0000, 0x03E8] were parsed as U32 on a
\* little-endian host and gave 1000.
C15_Witness ==
  /\ host = "little" /\ detectReg.storage = NumericKind("U32", NoMultiplier)
  /\ wordsRead = <<0, 1000>>
  /\ parsed.variant = "U32" /\ parsed.v = 1000

\* C16: a String register parses to the bytes of its words in word order,
\* the high byte of each word before its low byte, on either host.
ReadingOrder(words) ==
  [k \in 1..(2 * Len(words)) |->
     IF k % 2 = 1 THEN words[(k + 1) \div 2] \div 256 ELSE words[k \div 2] % 256]
C16_StringBytesInReadingOrder ==
  (detectReg.storage.variant = "String" /\ parsed.variant = "String")
    => parsed.v = ReadingOrder(wordsRead)

\* C17: an integer register with multiplier m = num / den parses to the
\* integer nearest to v * m (a half goes away from zero) cast to the type,
\* v being the value the same words give without multiplier; without
\* multiplier it parses to v.
Abs(x) == IF x < 0 THEN -x ELSE x
IsNearest(r, num, den) ==
  /\ 2 * Abs(r * den - num) <= den
  /\ 2 * Abs(r * den - num) = den => Abs(r) * den > Abs(num)
C17_MultiplierRounds ==
  parsed.variant \in IntegerVariants =>
    LET kind == detectReg.storage
        v == ParseIntegerRegisterKind(host, kind.variant, wordsRead, NoMultiplier).v
        num == v * kind.multiplier.num
        den == kind.multiplier.den
    IN IF kind.multiplier.some
         THEN \E r \in ((num \div den) - 1)..((num \div den) + 1) :
                /\ IsNearest(r, num, den)
                /\ parsed.v = SaturatingCast(kind.variant, r)
         ELSE parsed.v = v

\* C17 witness: U32 with multiplier 0.1 parsed the words [0x0000, 0x03E8]
\* on a little-endian host and gave 100.
C17_Witness ==
  /\ host = "little" /\ detectReg.storage = NumericKind("U32", Multiplier(1, 10))
  /\ wordsRead = <<0, 1000>>
  /\ parsed.variant = "U32" /\ parsed.v = 100

\* C19: a detect register with the plain match string "5" on a U16 register
\* matches exactly when the parsed value is 5, whose decimal rendering is the
\* match string; 6, 15 and 50 do not match.
C19_PlainMatchIsExact ==
  ( /\ confReg.match = <<53>> /\ confReg.kind = NumericKind("U16", NoMultiplier)
    /\ matched # "none" )
  => /\ matched = "yes" <=> parsed.v = 5
     /\ matched = "yes" <=> Display(parsed) = confReg.match

\* C14: Destination::for(address) yields exactly 248 distinct destinations of
\* the address: one for every slave id of 1..=247 and the standalone one, each
\* exactly once.
C14_AllSlavesEnumerated ==
  dphase # "idle" =>
    \A n \in 1..Len(addresses) :
      LET found == {i \in 1..Len(candidates) : candidates[i].address = addresses[n]} IN
      /\ Cardinality(found) = (MaxDevice - MinDevice + 1) + 1
      /\ \A s \in (MinDevice..MaxDevice) \cup {None} :
           Cardinality({i \in found : candidates[i].slave = s}) = 1

\* the detect read of a (destination, kind) succeeded, every detect register
\* parsed to a value and every value matches
DetectHolds(p) ==
  LET detect == Devices[p.kind].detect
      response == probe[p].detect
      value(i) == Parse(host, detect[i].storage, response.words[i])
  IN /\ response.ok
     /\ \A i \in 1..Len(detect) : value(i).variant # "None"
     /\ \A i \in 1..Len(detect) : Matches(detect[i].match, value(i))
DetectReturned == {"unmatched", "matched", "noid", "found", "some", "none", "consolidated", "failed"}

\* C18: match_device reports a kind as matching a destination exactly when
\* the detect read succeeded, every detect register parsed and every parsed
\* register matches; otherwise the kind is not matched and no id read is
\* issued for that (destination, kind).
C18_MatchIffAllDetectMatch ==
  \A p \in Pairs :
    /\ probe[p].stage \in DetectReturned =>
         (probe[p].stage # "unmatched" <=> DetectHolds(p))
    /\ probe[p].idRead => probe[p].stage \in DetectReturned /\ DetectHolds(p)

\* C18 witness: one kind was not matched although its read succeeded and its
\* registers parsed (one of them does not match) and no id read was issued
\* for it, while the id of a matched kind was read
C18_Witness ==
  \E p, q \in Pairs :
    /\ probe[p].stage = "unmatched" /\ probe[p].detect.ok /\ ~probe[p].idRead
    /\ \A i \in 1..Len(Devices[p.kind].detect) :
         Parse(host, Devices[p.kind].detect[i].storage, probe[p].detect.words[i]).variant # "None"
    /\ probe[q].idRead /\ probe[q].stage = "found"

\* the (destination, kind)s whose detect registers matched and whose id read
\* succeeded
Consolidating == {"found", "some", "none", "consolidated", "failed"}
RowsOf(id) == {i \in 1..Len(rows) : rows[i].id = id}

\* C20: when an execution has returned and no store call failed on the
\* store's side, every (destination, kind) whose detect registers matched and
\* whose id was read was consolidated (its row inserted, or updated) and has
\* exactly one device row of its id; the row carries the destination of a
\* consolidated match of that id, and it is Healthy when this execution
\* inserted it and the earlier row otherwise - also when several matches
\* produced the same id and were consolidated concurrently.
C20_OneRowPerMatch ==
  dphase = "done" /\ ~dbFailed =>
    \A p \in Pairs :
      probe[p].stage \in Consolidating =>
        /\ probe[p].stage = "consolidated"
        /\ Cardinality(RowsOf(probe[p].id)) = 1
        /\ \A i \in RowsOf(probe[p].id) :
             /\ \E q \in Pairs : /\ probe[q].stage = "consolidated"
                                 /\ probe[q].id = rows[i].id
                                 /\ q.destination.slave = rows[i].slave
             /\ \/ rows[i].status = "Healthy"
                \/ rows[i] = [OldRow EXCEPT !.slave = rows[i].slave]

\* the payloads an execution handed to the cloud, and the log rows it wrote
PayloadsOf(e) == {i \in 1..Len(payloads) : payloads[i].exec = e}
LogsOf(e) == {n \in 1..Len(logs) : logs[n].exec = e}

\* C21: an execution of Push or Update that attempts a batch writes exactly
\* one log row, after the cloud call, whatever the call returned (no more than
\* one ever, and one once its insert_log has returned Ok): the row's last is
\* the highest id of the batch handed to the cloud and its status is Success
\* exactly when the cloud returned a successful response; an execution that
\* finds no rows makes no cloud call and writes no log row.
C21_OneLogPerAttempt ==
  \A e \in Execs :
    /\ Cardinality(PayloadsOf(e)) <= 1
    /\ Cardinality(LogsOf(e)) <= 1
    /\ exec[e].pc = "done" => Cardinality(PayloadsOf(e)) = 1 /\ Cardinality(LogsOf(e)) = 1
    /\ \A n \in LogsOf(e) :
         \E i \in PayloadsOf(e) :
           /\ logs[n].kind = payloads[i].kind
           /\ logs[n].last = MaxId(payloads[i].ids)
           /\ \A id \in payloads[i].ids : id <= logs[n].last
           /\ logs[n].status \in {"Success", "Failure"}
           /\ logs[n].status = "Success" <=> payloads[i].outcome = "success"
    /\ exec[e].pc = "returned" => PayloadsOf(e) = {} /\ LogsOf(e) = {}

\* C21 witness: three Update executions have returned: one logged Success,
\* one logged Failure after a transport error, one found no rows
C21_Witness ==
  \E e, f, g \in Execs :
    /\ exec[e].kind = "Update" /\ exec[e].pc = "done"
    /\ \E n \in LogsOf(e) : logs[n].status = "Success"
    /\ exec[f].pc = "done"
    /\ \E n \in LogsOf(f), i \in PayloadsOf(f) :
         logs[n].status = "Failure" /\ payloads[i].outcome = "transport_error"
    /\ exec[g].pc = "returned"

\* C22: the last values of the persisted Push log rows, in insertion order,
\* never decrease - also when executions overlap and measurements are
\* inserted between them.
C22_PushLastNonDecreasing ==
  \A m, n \in 1..Len(logs) :
    m < n /\ logs[m].kind = "Push" /\ logs[n].kind = "Push" => logs[m].last <= logs[n].last

\* C23: a Push execution sends at most the limit of rows, all above the
\* cursor it read; no row at or below the last of a successful Push log
\* written before the call is sent again; and the execution that reads the
\* same cursor right after the log of a failed batch sends the rows of that
\* batch again.
C23_PushResumesAfterCursor ==
  \A i \in 1..Len(payloads) :
    payloads[i].kind = "Push" =>
      LET e == payloads[i].exec IN
      /\ Cardinality(payloads[i].ids) <= BatchLimit
      /\ \A id \in payloads[i].ids : id > exec[e].cursor
      /\ \A id \in payloads[i].ids :
           \A n \in 1..payloads[i].logged :
             logs[n].kind = "Push" /\ logs[n].status = "Success" => logs[n].last < id
      /\ \A n \in 1..Len(logs) :
           /\ logs[n].kind = "Push" /\ logs[n].status = "Failure"
           /\ exec[e].seen = n /\ exec[e].cursor = exec[logs[n].exec].cursor
           => exec[logs[n].exec].batch \subseteq payloads[i].ids

\* the id rendered from the id registers of the tick
RenderedId ==
  MakeId(streamDevice.kind,
         LET left == {i \in 1..Len(tickRegisters) : tickRegisters[i].either = "Left"} IN
         [k \in 1..Cardinality(left) |->
            tickRegisters[CHOOSE i \in left : Cardinality({j \in left : j <= i}) = k].storage])

\* C24: consolidate persists a Measurement row only when the id rendered from
\* the tick's id registers equals the device id of the stream; on a mismatch
\* it returns an error and inserts nothing.  The row persisted has that device
\* id as source, and its data holds exactly the measurement registers of the
\* tick, by name, and nothing of an id register; no other step touches the
\* table.
C24_PersistsOnlyOwnId ==
  [][/\ measurements' # measurements =>
          /\ consolidated = "none" /\ consolidated' = "Ok"
          /\ RenderedId = streamDevice.id
          /\ \E row \in [source : {streamDevice.id},
                         data : {measurements'[Len(measurements')].data}] :
               /\ measurements' = Append(measurements, row)
               /\ \A n \in DOMAIN row.data :
                    \E i \in 1..Len(tickRegisters) :
                      /\ tickRegisters[i].either = "Right"
                      /\ tickRegisters[i].name = n
                      /\ tickRegisters[i].storage = row.data[n]
               /\ \A i \in 1..Len(tickRegisters) :
                    tickRegisters[i].either = "Right" =>
                      tickRegisters[i].name \in DOMAIN row.data
     /\ (consolidated = "none" /\ consolidated' # "none" /\ RenderedId # streamDevice.id) =>
          consolidated' = "IdMismatch" /\ measurements' = measurements
     /\ consolidated' = "IdMismatch" => RenderedId # streamDevice.id
    ]_vars

\* C24 witness: the stream of device A-7 has one row persisted from a tick
\* that carried measurement registers, and the next tick, whose id register
\* reads 8, was refused
C24_Witness ==
  /\ consolidated = "IdMismatch"
  /\ Len(measurements) = 1
  /\ measurements[1].source = streamDevice.id
  /\ DOMAIN measurements[1].data = {"p", "q"}
  /\ \E i \in 1..Len(tickRegisters) : tickRegisters[i].either = "Left"

\* C25: on shutdown no interval task exits with its handler abandoned in the
\* middle of an iteration, and no handler is started after the shutdown was
\* requested (its token cancelled).
C25_IterationsFinish ==
  \A i \in 1..Len(Intervals) :
    /\ ~intervalTask[i].abandoned
    /\ ~intervalTask[i].lateStart

\* the Storages the task holds, in both lists
Storages == SeqToSet(oneshots) \cup SeqToSet(streams)
PartialLengths == \A s \in Storages : Len(s.partial) = s.n
\* the worker put Ok on the reply channel of rid in this step
OkSent(rid) == sent'[rid] # sent[rid] /\ sent'[rid].last.t = "Ok"
\* the slots read in for the Storage at idx when its read returns: the locals
\* of the read in progress with the slot just read, or the stored partial
\* when no slot was left to read
DataAtReturn ==
  IF pc = "read" THEN [cur.data EXCEPT ![cur.j] = lastPR'.d] ELSE CurItem.partial
OkFromFullPartial ==
  \A rid \in Rids :
    OkSent(rid) =>
      /\ CurItem.id = rid
      /\ Len(DataAtReturn) = req[rid].n
      /\ \A i \in 1..req[rid].n : DataAtReturn[i] # None
      /\ sent'[rid].last.resp = DataAtReturn

\* C26: every Storage of the one-shot list and of the stream list has a
\* partial with one slot per span, and an Ok the worker sends on a reply
\* channel is built from slots that are all Some, one per span.
C26_PartialPerSpanOkFromFull == [][PartialLengths' /\ OkFromFullPartial]_vars
\* a request of two spans was stored back with one slot Some and one None,
\* and a later loop sent its Ok
C26_Witness ==
  \E rid \in Rids :
    /\ req[rid].n = 2
    /\ sent[rid].last.t = "Ok"
    /\ lastPR.id = rid /\ lastPR.res = "Ok" /\ Len(lastPR.issued) = 1

\* Connection::connect returned in this step
ConnectReturned == lastConnect' # lastConnect
ConnectOnlyWhenAbsent ==
  /\ lastConnect'.held = FALSE
  /\ ConnectReturned /\ lastConnect'.result = "Ok" =>
       /\ connections' = connections \cup {req[lastConnect'.id].dest}
       /\ Cardinality(connections') = Cardinality(connections) + 1
\* an entry stays in connections for as long as the task lives
ConnectionKept == taskState' = "running" /\ pc' # "done" => connections \subseteq connections'
\* a read in progress is a read over the entry of the Storage's destination
ReadOverEntry == pc = "read" => CurItem.dest \in connections

\* C27: connections has one entry per destination; Connection::connect is
\* called for a destination only while connections has no entry for it, the
\* connection it returns becomes that entry and stays it, and every read of a
\* request goes over the entry of the request's destination.
C27_OneConnectionPerDestination ==
  [][ConnectOnlyWhenAbsent /\ ConnectionKept /\ ReadOverEntry']_vars
\* two requests to one destination were both read and answered Ok, and the
\* only call of connect was made for the first of them
C27_Witness ==
  /\ req[1].dest = req[2].dest /\ req[1].n > 0 /\ req[2].n > 0
  /\ sent[1].last.t = "Ok" /\ sent[2].last.t = "Ok"
  /\ lastConnect.id = 1 /\ lastConnect.result = "Ok"

\* the slots of a partial that are None, in slot order
NoneSlots(partial) == SelectSeq([i \in 1..Len(partial) |-> i], LAMBDA i : partial[i] = None)
SomeSlots(partial) == Cardinality({i \in 1..Len(partial) : partial[i] # None})
\* a Some slot of the stored partial of request rid
StoredSome(rid, j) ==
  \E i \in 1..Len(oneshots) :
    oneshots[i].id = rid /\ j <= Len(oneshots[i].partial) /\ oneshots[i].partial[j] # None
AttemptsUntilReply ==
  \A rid \in Rids :
    OkSent(rid) =>
      /\ reads'[rid].attempts = req[rid].n + reads'[rid].failed
      /\ \A j \in 1..req[rid].n : reads'[rid].ok[j] = 1
      /\ sent'[rid].n = 1
      /\ sent'[rid].last.resp = [j \in 1..req[rid].n |-> DeviceData(req[rid].dest, j)]
\* the slots a call of read reads are the None slots of the stored partial,
\* each once and in slot order
ReadsOnlyNoneSlots ==
  /\ pc' = "read" => cur'.issued = SubSeq(NoneSlots(CurItem'.partial), 1, Len(cur'.issued))
  /\ \A rid \in Rids : \A j \in 1..MaxSpans :
       reads'[rid].ok[j] # reads[rid].ok[j] => ~StoredSome(rid, j)

\* C28: when the worker replies Ok to a request of N spans it has made N
\* read attempts that succeeded, one per span, and one more for every attempt
\* that failed; a call of read reads only the slots that are None in the
\* stored partial, so a span that succeeded is not read again in a later loop
\* iteration, and the reply is sent once with the data of every span.
C28_AttemptsAreSpansPlusFailures == [][AttemptsUntilReply /\ ReadsOnlyNoneSlots]_vars
\* spans [A, B]: A succeeded and B failed in a first loop, a later loop read
\* only B, and the reply was sent with both
C28_Witness ==
  \E rid \in Rids :
    /\ req[rid].n = 2
    /\ sent[rid] = [n |-> 1, last |-> MsgOk(<<DeviceData(req[rid].dest, 1), DeviceData(req[rid].dest, 2)>>)]
    /\ lastPR.id = rid /\ lastPR.issued = <<2>>
    /\ reads[rid].failed >= params.retries
    /\ reads[rid].attempts = 2 + reads[rid].failed

\* the worker is about to process the Storage at idx of the list of the pass
Processing == TaskRuns /\ pc = "loop" /\ idx <= Len(CurList)
\* the carriers are sent in the order of their ids and the request channel is
\* FIFO, so a list in dequeue order is a list in the order of the ids
InDequeueOrder(list) == \A i, j \in 1..Len(list) : i < j => list[i].id < list[j].id
\* the one-shot requests the task holds that this iteration has not processed yet
OneshotsAhead ==
  IF pass = "oneshot"
    THEN {i \in idx..Len(oneshots) : req[oneshots[i].id].kind = "Oneshot"}
    ELSE {}

StreamConnectFails(rid) ==
  req[rid].kind = "Stream" /\ rid \in connectFailed' /\ rid \notin connectFailed

Tuned == pc = "tune" /\ pc' = "top"

\* C31: the worker's params keep retries >= 1 and timeout >= 1 ms through
\* every loop iteration and every call of tune, and the params after tune are
\* a function of the params and the metrics of the iteration.
C31_ParamsStayValid ==
  [][/\ params'.retries >= 1 /\ params'.timeout >= 1
     /\ Tuned => params' = TuneParams(params, metrics)
     /\ ~Tuned => params' = params]_vars
\* tune has run on an iteration whose reads failed, and the request is still
\* pending with the params it started with
C31_Witness ==
  /\ pc = "top" /\ oneshots # <<>>
  /\ params = [retries |-> env.retries, timeout |-> InitialTimeout]
  /\ reads[oneshots[1].id].failed > 0

\* C32: read_span, like parameterized_read, issues at most `retries`
\* holding-register reads for one span, and issues no read after a response
\* that fails to parse.
C32_ReadSpanWithinRetries ==
  /\ readSpan.issued <= readSpan.retries
  /\ readSpan.ret = "Err(Parse)" => readSpan.afterParse = 0

\* C33: under fair scheduling every one-shot request the running worker has
\* taken from the request channel is eventually answered, or its reply
\* channel is closed (or its caller has given up waiting), also when the
\* reads of one of its spans keep failing.
C33_OneshotEventuallyAnswered ==
  \A rid \in Rids :
    (req[rid].kind = "Oneshot" /\ TaskRuns /\ rid \in StorageIds(oneshots))
      ~> (sent[rid].n > 0 \/ ~SenderAlive(rid) \/ cpc[rid] # "waiting")

\* C34: once the task has dequeued Terminate and holds no one-shot, it
\* finishes by itself (execute returns) although request senders are alive,
\* so that no caller of terminate has to abort it.
C34_FinishesAfterTerminate ==
  (TaskRuns /\ terminate /\ pc = "top" /\ oneshots = <<>> /\ queue = <<>>)
    ~> (taskState = "finished")

\* C35: when a call of terminate has returned, the worker task is no longer
\* running: it has finished or its abort has taken effect; for every caller.
C35_TaskStoppedWhenTerminateReturns ==
  \A c \in Callers : tpc[c] = "done" => taskState \in {"finished", "aborted"}

\* the requests for whose destination d Connection::connect returned Ok
ConnectedFor(d) == {rid \in Rids : req[rid].dest = d /\ reads[rid].connected}
\* the worker neither removes an entry of connections nor makes a second
\* connection for a destination that has one
EntriesOnlyAdded ==
  /\ taskState' = "running" /\ pc' # "done" => connections \subseteq connections'
  /\ \A d \in Dests : Cardinality(ConnectedFor(d)') <= 1
\* a parameterized_read that returned Err leaves the entry in place, and an
\* attempt made for a request that has seen failures is made with the entry
\* in place
EntryKeptAfterFailure ==
  /\ lastPR'.res = "Err" => req[lastPR'.id].dest \in connections'
  /\ \A rid \in Rids :
       reads'[rid].attempts # reads[rid].attempts /\ reads[rid].failed > 0 =>
         req[rid].dest \in connections /\ ConnectedFor(req[rid].dest)' = ConnectedFor(req[rid].dest)

\* C36: the worker never removes or replaces an entry of connections: while
\* the task runs the set of connected destinations only grows, one connection
\* is made per destination, and the reads for a destination go over it also
\* after reads on it have failed.
C36_ConnectionsOnlyGrow == [][EntriesOnlyAdded /\ EntryKeptAfterFailure]_vars
\* two requests to one destination: the first connected, its read failed,
\* and the second was read and answered over the connection of the first
C36_Witness ==
  /\ req[1].dest = req[2].dest
  /\ reads[1].connected /\ ~reads[2].connected
  /\ reads[1].failed > 0 /\ oneshots # <<>> /\ oneshots[1].id = 1
  /\ sent[2].last.t = "Ok" /\ reads[2].attempts > 0

\* the rows handed to the cloud in a push that the cloud accepted
SentRows ==
  UNION {payloads[i].ids : i \in {k \in 1..Len(payloads) :
                                    payloads[k].kind = "Push" /\ payloads[k].outcome = "success"}}

\* C37: every measurement row with an id up to the last of a successful Push
\* log has been in the payload of a successful push; the limit of a batch
\* never makes the cursor pass a row that was not sent.
C37_CursorPassesOnlySentRows ==
  \A n \in SuccessfulLogs("Push") : \A id \in 1..logs[n].last : id \in SentRows

\* C38: for every integer register kind and every word sequence of its
\* length the parse on a big-endian host gives the value the parse on a
\* little-endian host gives: the scalar whose bytes, most significant first,
\* are the words in the order received, each with its high byte first.
C38_HostsParseAlike ==
  LET kind == detectReg.storage IN
  ( /\ parsed.variant \in IntegerVariants /\ ~kind.multiplier.some
    /\ 2 * Len(wordsRead) = SizeOf(kind.variant) )
  => /\ parsed.v = FromNeBytes(host, kind.variant, ParseNumericBytes(host, wordsRead))
     /\ MsbFirst(host, ParseNumericBytes(host, wordsRead)) = ReadingOrder(wordsRead)
     /\ MsbFirst(host, ParseNumericBytes(host, wordsRead))
          = MsbFirst("little", ParseNumericBytes("little", wordsRead))

\* RegisterStorage::quantity for RegisterKind: the words of the span
QuantityOfKind(kind) ==
  IF kind.variant = "String" THEN kind.length ELSE SizeOf(kind.variant) \div 2

\* RegisterStorage::quantity for RegisterValue: the words of a scalar by its
\* variant, and value.len(), the bytes of the text, for a String
QuantityOfValue(value) ==
  IF value.variant = "String" THEN Len(value.v) ELSE SizeOf(value.variant) \div 2

\* C39: a register that parsed describes the span of the register it was
\* parsed for: the quantity of the parsed value is the quantity of the kind
C39_ParsedSpanIsDeclaredSpan ==
  parsed.variant \notin {"Unparsed", "None"}
    => /\ parsed.variant = detectReg.storage.variant
       /\ QuantityOfValue(parsed) = QuantityOfKind(detectReg.storage)

\* a device kind of the configuration without detect registers
NoDetectDevice == [kind |-> <<67>>, detect |-> <<>>, id |-> <<U16Kind>>]

\* a request without spans, and what was sent for it
ZeroSpan(rid) == req[rid].kind # "None" /\ req[rid].n = 0
OkEmpty(rid) == sent[rid].n = 1 /\ sent[rid].last = MsgOk(<<>>)

\* C40: a request without spans is answered in the loop iteration that first
\* processes it, with Ok of an empty response list once its destination has
\* a connection, no read is issued for it, and it is removed at the end of
\* the pass; match_device of a kind without detect registers matches on
\* that answer
C40_EmptyRequestAnsweredAtOnce ==
  /\ pc = "read" => CurItem.n > 0
  /\ (pc = "loop" /\ pass = "oneshot") =>
       \A i \in 1..Len(oneshots) :
         (i < idx /\ oneshots[i].n = 0) => oneshots[i].id \in oneshotsToRemove
  /\ pc = "tune" => \A i \in 1..Len(oneshots) : oneshots[i].n > 0
  /\ \A rid \in Rids :
       (ZeroSpan(rid) /\ sent[rid].n > 0) =>
         IF rid \in connectFailed
           THEN sent[rid].n = 1 /\ sent[rid].last = MsgFailedToConnect
           ELSE /\ OkEmpty(rid)
                /\ TaskRuns => req[rid].dest \in connections
                /\ \A h \in Hosts :
                     MatchDevice(h, NoDetectDevice,
                                 [ok |-> TRUE, words |-> sent[rid].last.resp])

\* a one-shot request without spans was answered Ok(<<>>) over a connection
\* and is no longer held by the task
C40_Witness ==
  \E rid \in Rids :
    /\ ZeroSpan(rid) /\ req[rid].kind = "Oneshot" /\ OkEmpty(rid)
    /\ req[rid].dest \in connections
    /\ rid \notin HeldIds /\ rid \notin SeqToSet(queue)
    /\ pc = "tune"

====
